---- MODULE Spec2Model ----
(***************************************************************************)
(* Model of the book-editor scripts: the document chunker, the edit        *)
(* validator, the response cleaner (pure functions over texts) and the     *)
(* editing orchestrator of book_editor_agent.py.                           *)
(*                                                                         *)
(* A text is a sequence of one-character strings, so that Python's         *)
(* str.split(), str.split(sep), str.strip(), str.join(), `in`, rfind and   *)
(* lower() are modelled by what they do on characters.                     *)
(***************************************************************************)
EXTENDS Integers, Sequences, FiniteSets, Bags, TLC

VARIABLES
    fn,            \* pure-function runs: the function under call ("none" in the orchestrator)
    args,          \* pure-function runs: the arguments of the call
    ret,           \* pure-function runs: what the call returned
    fpc,           \* pure-function runs: "call" before the call, "return" after it
    unit,          \* the function run as the editing unit
    pc,            \* where the editing unit stands
    readable,      \* whether text_file can be read
    orig_text,     \* original_text: the content of text_file
    notes_read,    \* review_notes = get_review_notes(text_file): None, or the notes
    chunk_size,    \* the chunk_size argument
    edited_dir,    \* the files of edited-texts/ that belong to text_file and model
    alarm,         \* whether signal.alarm is armed
    calls,         \* the client.messages.create calls made so far, in order
    edit_text,     \* edited_text (combined_text on the chunk path)
    validation,    \* the validator's verdicts so far, in order
    doc_chunks,    \* process_document_in_chunks: chunks
    chunk_i,       \* process_document_in_chunks: chunk_num of the current turn
    edited_chunk,  \* process_document_in_chunks: local edited_chunk (None while unbound)
    edited_chunks, \* process_document_in_chunks: edited_chunks
    result,        \* what the unit returned (None before it returns)
    qwen_edited_dir, \* the files of qwen-edited-texts/ that belong to text_file and model
    writes,        \* the files the unit has written, in order
    batch,         \* batch_edit_texts: its arguments, its locals and where it stands
    main,          \* main of a script: the files it goes through and where it stands
    local,         \* open_editor_agent.edit_text: its arguments, its locals and where it stands
    client,        \* a caller of one AnthropicConnectionMonitor, for the runs of the monitor alone
    spinning,      \* the Spinner threads that are alive, by the message they were made with
    monitors       \* the AnthropicConnectionMonitor objects made so far, as a bag: those
                   \* with the same flags and the same thread position count together

fvars == <<fn, args, ret, fpc>>
ovars == <<unit, pc, readable, orig_text, notes_read, chunk_size, edited_dir, alarm,
           calls, edit_text, validation, doc_chunks, chunk_i, edited_chunk, edited_chunks, result,
           qwen_edited_dir, writes>>
dvars == <<batch, main, local, client>>
tvars == <<spinning, monitors>>
vars == <<fvars, ovars, dvars, tvars>>

\* batch_edit_texts is not running
BatchIdle == [pc |-> "none"]

\* no main, no edit_text of open_editor_agent and no caller of a monitor is running
MainIdle == [pc |-> "none"]
LocalIdle == [pc |-> "none"]
ClientIdle == [pc |-> "none"]

\* nothing but the editing unit, the batch driver or a single function runs,
\* and no thread has been started
RestIdle ==
    /\ main = MainIdle /\ local = LocalIdle /\ client = ClientIdle
    /\ spinning = {} /\ monitors = EmptyBag

(***************************************************************************)
(* Bounds of the model                                                     *)
(***************************************************************************)
MaxTextLen == 7      \* chunker inputs: every text of at most this many characters
MaxBudget == 3       \* chunker inputs: max_words ranges over 1..MaxBudget
MaxParas == 5        \* validator inputs: documents of 0..MaxParas paragraphs
MaxParaWords == 3    \* validator inputs: paragraphs of 1..MaxParaWords words
MaxSegments == 4     \* cleaner inputs: a body followed by at most this many segments
BodyLen == 28        \* cleaner inputs: the body is empty or this many letters
MaxChunkSize == 2    \* orchestrator: chunk_size ranges over 0..MaxChunkSize
OrchParas == 4       \* orchestrator: documents have up to this many one-word paragraphs
MaxExisting == 2     \* orchestrator: up to this many edited files exist beforehand
MaxVersion == 2      \* save runs: files of versions 0..MaxVersion may exist beforehand
MaxSaves == 2        \* save runs: at most this many saves in a row
MaxBatchFiles == 3   \* batch runs: at most this many text files
MaxUnitTokens == 2   \* batch runs: a unit's completion calls use at most this many tokens
MaxRegistryCount == 2  \* registry runs: token and word counts up to this
MaxStops == 3          \* monitor runs: stop_monitoring is called at most this many times

(***************************************************************************)
(* Python string primitives                                                *)
(***************************************************************************)
SP == " "
NL == "\n"
TAB == "\t"

\* str.isspace() on the characters the model uses
IsSpace(c) == c \in {SP, NL, TAB}

\* the paragraph separator "\n\n"
NLNL == <<NL, NL>>

\* needle in hay, at 1-based position i
OccursAt(hay, needle, i) ==
    /\ i >= 1
    /\ i + Len(needle) - 1 <= Len(hay)
    /\ \A k \in 1..Len(needle) : hay[i + k - 1] = needle[k]

\* Python: needle in hay
Contains(hay, needle) == \E i \in 1..(Len(hay) + 1) : OccursAt(hay, needle, i)


\* Python: s.strip()
strip(s) ==
    LET keep == {i \in 1..Len(s) : ~IsSpace(s[i])}
    IN  IF keep = {} THEN <<>>
        ELSE LET lo == CHOOSE i \in keep : \A j \in keep : i <= j
                 hi == CHOOSE i \in keep : \A j \in keep : i >= j
             IN  SubSeq(s, lo, hi)

\* Python: s.split(), the maximal runs of non-whitespace characters, here of
\* s[lo..hi]: the words of the two halves, the word across the cut glued together
RECURSIVE SplitWords(_, _, _)
SplitWords(s, lo, hi) ==
    IF lo > hi THEN <<>>
    ELSE IF lo = hi THEN (IF IsSpace(s[lo]) THEN <<>> ELSE <<(<<s[lo]>>)>>)
    ELSE LET mid == (lo + hi) \div 2
             left == SplitWords(s, lo, mid)
             right == SplitWords(s, mid + 1, hi)
         IN  IF ~IsSpace(s[mid]) /\ ~IsSpace(s[mid + 1])
             THEN SubSeq(left, 1, Len(left) - 1)
                      \o <<left[Len(left)] \o right[1]>> \o Tail(right)
             ELSE left \o right

split(s) == SplitWords(s, 1, Len(s))

\* the first position >= i at which sep occurs in s, 0 when there is none
FindFrom(s, sep, i) ==
    LET at == {j \in i..(Len(s) + 1) : OccursAt(s, sep, j)}
    IN  IF at = {} THEN 0 ELSE CHOOSE j \in at : \A k \in at : j <= k

\* Python: s.split(sep), leftmost non-overlapping separators, empty pieces kept
RECURSIVE SplitOnFrom(_, _, _, _)
SplitOnFrom(s, sep, start, acc) ==
    LET i == FindFrom(s, sep, start)
    IN  IF i = 0 THEN Append(acc, SubSeq(s, start, Len(s)))
        ELSE SplitOnFrom(s, sep, i + Len(sep), Append(acc, SubSeq(s, start, i - 1)))

split_on(s, sep) == SplitOnFrom(s, sep, 1, <<>>)

\* Python: sep.join(parts), here of parts[lo..hi]
RECURSIVE JoinRange(_, _, _, _)
JoinRange(sep, parts, lo, hi) ==
    IF lo > hi THEN <<>>
    ELSE IF lo = hi THEN parts[lo]
    ELSE LET mid == (lo + hi) \div 2
         IN  JoinRange(sep, parts, lo, mid) \o sep \o JoinRange(sep, parts, mid + 1, hi)

join(sep, parts) == JoinRange(sep, parts, 1, Len(parts))

\* Python: [p for p in parts if p.strip()]
NonBlank(parts) == SelectSeq(parts, LAMBDA p : strip(p) # <<>>)

\* [p for p in text.split("\n\n") if p.strip()]
Paragraphs(text) == NonBlank(split_on(text, NLNL))

\* len(text.split())
WordCount(text) == Len(split(text))

(***************************************************************************)
(* Document Chunker: chunk_document                                        *)
(***************************************************************************)
\* mutant: a chunk is closed only once it is already over the budget
StartNewChunk_Late(current_word_count, paragraph_words, max_words, current_chunk) ==
    current_word_count > max_words /\ current_chunk # <<>>

\* mutant: a chunk is closed as soon as it holds a paragraph
StartNewChunk_Early(current_word_count, paragraph_words, max_words, current_chunk) ==
    current_chunk # <<>>

\* the branch condition of the paragraph loop
StartNewChunk(current_word_count, paragraph_words, max_words, current_chunk) ==
    current_word_count + paragraph_words > max_words /\ current_chunk # <<>>

\* mutant: the chunk still open after the loop is forgotten
AddLastChunk_Forgotten(chunks, current_chunk) == chunks

\* after the loop: "if current_chunk: chunks.append(...)"
AddLastChunk(chunks, current_chunk) ==
    IF current_chunk # <<>> THEN Append(chunks, join(NLNL, current_chunk)) ELSE chunks

RECURSIVE ChunkLoop(_, _, _, _, _, _)
ChunkLoop(paragraphs, i, max_words, chunks, current_chunk, current_word_count) ==
    IF i > Len(paragraphs) THEN AddLastChunk(chunks, current_chunk)
    ELSE LET paragraph == paragraphs[i]
             paragraph_words == WordCount(paragraph)
         IN  IF StartNewChunk(current_word_count, paragraph_words, max_words, current_chunk)
             THEN ChunkLoop(paragraphs, i + 1, max_words,
                            Append(chunks, join(NLNL, current_chunk)),
                            <<paragraph>>, paragraph_words)
             ELSE ChunkLoop(paragraphs, i + 1, max_words, chunks,
                            Append(current_chunk, paragraph),
                            current_word_count + paragraph_words)

\* preserve_paragraphs = False: " ".join(words[i:i+max_words]) for i in range(0, len(words), max_words)
RECURSIVE WordChunks(_, _, _)
WordChunks(words, i, max_words) ==
    IF i > Len(words) THEN <<>>
    ELSE <<join(<<SP>>, SubSeq(words, i, IF i + max_words - 1 < Len(words)
                                          THEN i + max_words - 1 ELSE Len(words)))>>
         \o WordChunks(words, i + max_words, max_words)

\* mutant: no early return for a text within the budget
chunk_document_AlwaysSplit(text, max_words, preserve_paragraphs) ==
    IF preserve_paragraphs
    THEN ChunkLoop(Paragraphs(text), 1, max_words, <<>>, <<>>, 0)
    ELSE WordChunks(split(text), 1, max_words)

chunk_document(text, max_words, preserve_paragraphs) ==
    LET words == split(text)
    IN  IF Len(words) <= max_words THEN <<text>>
        ELSE IF preserve_paragraphs
             THEN ChunkLoop(Paragraphs(text), 1, max_words, <<>>, <<>>, 0)
             ELSE WordChunks(words, 1, max_words)

(***************************************************************************)
(* Edit Validator: validate_edited_text                                    *)
(***************************************************************************)
\* Python's None as a value no text equals (a text holds one-character strings)
None == <<"None">>

\* Python truthiness of an optional string: "if review_notes:"
Truthy(x) == x # None /\ x # <<>>

UpperCase == <<"A","B","C","D","E","F","G","H","I","J","K","L","M","N","O","P","Q","R","S","T","U","V","W","X","Y","Z">>
LowerCase == <<"a","b","c","d","e","f","g","h","i","j","k","l","m","n","o","p","q","r","s","t","u","v","w","x","y","z">>

\* Python: s.lower()
lower(s) ==
    [i \in 1..Len(s) |->
        IF \E k \in 1..26 : UpperCase[k] = s[i]
        THEN LowerCase[CHOOSE k \in 1..26 : UpperCase[k] = s[i]]
        ELSE s[i]]

\* a / b < num / den for a >= 0, b > 0: the float comparisons of the validator
\* (x / y < 0.9, x < y * 0.9, x / y < 0.5) agree with the exact rational ones
\* on every count a document can have
RatioBelow(a, b, num, den) == a * den < num * b

summary_phrases == <<
    \* "the text below"
    <<"t","h","e"," ","t","e","x","t"," ","b","e","l","o","w">>,
    \* "this text"
    <<"t","h","i","s"," ","t","e","x","t">>,
    \* "this is a"
    <<"t","h","i","s"," ","i","s"," ","a">>,
    \* "below is a"
    <<"b","e","l","o","w"," ","i","s"," ","a">>,
    \* "condensed version"
    <<"c","o","n","d","e","n","s","e","d"," ","v","e","r","s","i","o","n">>,
    \* "shorter version"
    <<"s","h","o","r","t","e","r"," ","v","e","r","s","i","o","n">>,
    \* "summary of"
    <<"s","u","m","m","a","r","y"," ","o","f">>
>>

\* the window of the summary check: edited_text.split()[:100]
SummaryWindowWords == 100

\* " ".join(edited_text.split()[:100]).lower()
first_100_words(edited_text) ==
    LET words == split(edited_text)
        n == IF Len(words) < SummaryWindowWords THEN Len(words) ELSE SummaryWindowWords
    IN  lower(join(<<SP>>, SubSeq(words, 1, n)))

\* mutant: the indicator is searched in the whole edited text
has_summary_indicator_WholeText(edited_text) ==
    \E k \in 1..Len(summary_phrases) :
        Contains(lower(join(<<SP>>, split(edited_text))), summary_phrases[k])

\* any(phrase in first_100_words for phrase in summary_phrases)
has_summary_indicator(edited_text) ==
    \E k \in 1..Len(summary_phrases) :
        Contains(first_100_words(edited_text), summary_phrases[k])

\* mutant: the no-notes threshold used with review notes
ExcessivelyShortened_AtNinety(edited_words, original_words) ==
    RatioBelow(edited_words, original_words, 9, 10)

\* with review notes: "if word_ratio < 0.5"
ExcessivelyShortened(edited_words, original_words) ==
    RatioBelow(edited_words, original_words, 5, 10)

\* mutant: an empty edit is let through the length check
TooShort_SkipsEmpty(edited_words, original_words) ==
    edited_words > 0 /\ RatioBelow(edited_words, original_words, 9, 10)

\* without review notes: "if word_ratio < 0.9"
TooShort(edited_words, original_words) ==
    RatioBelow(edited_words, original_words, 9, 10)

\* mutant: "or" for "and"
FewerParagraphs_Or(edited_paragraphs, original_paragraphs) ==
    edited_paragraphs * 10 < original_paragraphs * 9 \/ original_paragraphs > 3

\* "if edited_paragraphs < original_paragraphs * 0.9 and original_paragraphs > 3"
FewerParagraphs(edited_paragraphs, original_paragraphs) ==
    edited_paragraphs * 10 < original_paragraphs * 9 /\ original_paragraphs > 3

\* book_editor_agent.validate_edited_text: "True", "False", or the exception
\* the division by a zero word count raises
validate_edited_text(original_text, edited_text, review_notes) ==
    LET original_words == WordCount(original_text)
        edited_words == WordCount(edited_text)
        original_paragraphs == Len(Paragraphs(original_text))
        edited_paragraphs == Len(Paragraphs(edited_text))
    IN  IF original_words = 0 THEN "ZeroDivisionError"
        ELSE IF Truthy(review_notes)
             THEN (IF ExcessivelyShortened(edited_words, original_words) THEN "False" ELSE "True")
        ELSE IF TooShort(edited_words, original_words) THEN "False"
        ELSE IF FewerParagraphs(edited_paragraphs, original_paragraphs) THEN "False"
        ELSE IF has_summary_indicator(edited_text) THEN "False"
        ELSE "True"

\* open_editor_agent: "if word_diff_percent < threshold" with threshold = -20,
\* word_diff_percent = ((edited_words - original_words) / original_words) * 100
open_TooShort(edited_words, original_words) ==
    (edited_words - original_words) * 100 < (0 - 20) * original_words

\* open_editor_agent: "edited_paragraphs < original_paragraphs * 0.7 and original_paragraphs > 3"
open_FewerParagraphs(edited_paragraphs, original_paragraphs) ==
    edited_paragraphs * 10 < original_paragraphs * 7 /\ original_paragraphs > 3

\* open_editor_agent.validate_edited_text: is_valid of the returned pair, or the
\* exception the division by a zero word count raises
open_validate_edited_text(original_text, edited_text, review_notes_exist) ==
    LET original_words == WordCount(original_text)
        edited_words == WordCount(edited_text)
        original_paragraphs == Len(Paragraphs(original_text))
        edited_paragraphs == Len(Paragraphs(edited_text))
        valid1 == ~(~review_notes_exist /\ open_TooShort(edited_words, original_words))
        valid2 == IF ~review_notes_exist
                     /\ open_FewerParagraphs(edited_paragraphs, original_paragraphs)
                  THEN FALSE ELSE valid1
        valid3 == IF has_summary_indicator(edited_text) /\ ~review_notes_exist
                  THEN FALSE ELSE valid2
    IN  IF original_words = 0 THEN "ZeroDivisionError"
        ELSE IF valid3 THEN "True" ELSE "False"

(***************************************************************************)
(* Response Cleaner: cleanup_response (the same text in book_editor_agent  *)
(* and open_editor_agent)                                                  *)
(***************************************************************************)
ending_phrases == <<
    \* "This text has been edited"
    <<"T","h","i","s"," ","t","e","x","t"," ","h","a","s"," ","b","e","e","n"," ","e","d","i","t","e","d">>,
    \* "I have edited the text"
    <<"I"," ","h","a","v","e"," ","e","d","i","t","e","d"," ","t","h","e"," ","t","e","x","t">>,
    \* "The edited text follows"
    <<"T","h","e"," ","e","d","i","t","e","d"," ","t","e","x","t"," ","f","o","l","l","o","w","s">>,
    \* "Here is the edited text"
    <<"H","e","r","e"," ","i","s"," ","t","h","e"," ","e","d","i","t","e","d"," ","t","e","x","t">>,
    \* "I've maintained the full length"
    <<"I","'","v","e"," ","m","a","i","n","t","a","i","n","e","d"," ","t","h","e"," ","f","u","l","l"," ","l","e","n","g","t","h">>,
    \* "I've preserved all content"
    <<"I","'","v","e"," ","p","r","e","s","e","r","v","e","d"," ","a","l","l"," ","c","o","n","t","e","n","t">>,
    \* "This edit maintains"
    <<"T","h","i","s"," ","e","d","i","t"," ","m","a","i","n","t","a","i","n","s">>,
    \* "Edited according to"
    <<"E","d","i","t","e","d"," ","a","c","c","o","r","d","i","n","g"," ","t","o">>,
    \* "Following the style guidelines"
    <<"F","o","l","l","o","w","i","n","g"," ","t","h","e"," ","s","t","y","l","e"," ","g","u","i","d","e","l","i","n","e","s">>,
    \* "As per the instructions"
    <<"A","s"," ","p","e","r"," ","t","h","e"," ","i","n","s","t","r","u","c","t","i","o","n","s">>
>>

\* the backquote character, which a string of this language cannot hold
BQ == "backquote"

\* "---", "***", "###", three backquotes, "//"
ending_delimiters == <<
    <<"-","-","-">>, <<"*","*","*">>, <<"#","#","#">>, <<BQ, BQ, BQ>>, <<"/","/">>
>>

\* "edit", "note", "comment", "text", "follow"
metadata_words == <<
    <<"e","d","i","t">>, <<"n","o","t","e">>, <<"c","o","m","m","e","n","t">>,
    <<"t","e","x","t">>, <<"f","o","l","l","o","w">>
>>

\* mutant: the text is cut at the last occurrence of the phrase
PhraseStep_LastOccurrence(cleaned_text, phrase) ==
    IF Contains(cleaned_text, phrase)
    THEN LET at == {j \in 1..(Len(cleaned_text) + 1) : OccursAt(cleaned_text, phrase, j)}
             last == CHOOSE j \in at : \A k \in at : j >= k
         IN  strip(SubSeq(cleaned_text, 1, last - 1))
    ELSE cleaned_text

\* one turn of the phrase loop:
\* "if phrase in cleaned_text: cleaned_text = cleaned_text.split(phrase)[0].strip()"
PhraseStep(cleaned_text, phrase) ==
    IF Contains(cleaned_text, phrase)
    THEN strip(SubSeq(cleaned_text, 1, FindFrom(cleaned_text, phrase, 1) - 1))
    ELSE cleaned_text

\* mutant: the whole text is searched for delimiters
search_start_WholeText(cleaned_text) == 0

\* int(len(cleaned_text) * 0.85), the 0-based start of the searched tail
search_start(cleaned_text) == (Len(cleaned_text) * 85) \div 100

\* cleaned_text.rfind(delimiter, search_start) as a 1-based position, 0 when absent
RFindFrom(s, sep, start0) ==
    LET at == {j \in (start0 + 1)..(Len(s) + 1) : OccursAt(s, sep, j)}
    IN  IF at = {} THEN 0 ELSE CHOOSE j \in at : \A k \in at : j >= k

\* one turn of the delimiter loop
DelimiterStep(cleaned_text, delimiter) ==
    LET start0 == search_start(cleaned_text)
        last_part == SubSeq(cleaned_text, start0 + 1, Len(cleaned_text))
    IN  IF Contains(last_part, delimiter)
        THEN LET delimiter_pos == RFindFrom(cleaned_text, delimiter, start0)
                 text_after == lower(SubSeq(cleaned_text, delimiter_pos, Len(cleaned_text)))
             IN  IF \E k \in 1..Len(metadata_words) : Contains(text_after, lower(metadata_words[k]))
                 THEN strip(SubSeq(cleaned_text, 1, delimiter_pos - 1))
                 ELSE cleaned_text
        ELSE cleaned_text

RECURSIVE PhraseLoop(_, _)
PhraseLoop(cleaned_text, k) ==
    IF k > Len(ending_phrases) THEN cleaned_text
    ELSE PhraseLoop(PhraseStep(cleaned_text, ending_phrases[k]), k + 1)

RECURSIVE DelimiterLoop(_, _)
DelimiterLoop(cleaned_text, k) ==
    IF k > Len(ending_delimiters) THEN cleaned_text
    ELSE DelimiterLoop(DelimiterStep(cleaned_text, ending_delimiters[k]), k + 1)

cleanup_response(text) == DelimiterLoop(PhraseLoop(text, 1), 1)

(***************************************************************************)
(* Output files: save_edited_text, is_already_edited                       *)
(*                                                                         *)
(* edited_dir holds the files edited-texts/{name}-{model_id}[-{version}]   *)
(* as records; version 0 is the path without a version suffix.             *)
(***************************************************************************)
\* os.path.exists(output_path)
PathExists(dir, model_id, version) ==
    \E f \in dir : f.model_id = model_id /\ f.version = version

\* mutant: the unversioned path is taken without looking
FreeVersion_Unchecked(dir, model_id) == 0

\* the path the "while os.path.exists(output_path)" loop of save_edited_text ends on
FreeVersion(dir, model_id) ==
    CHOOSE n \in 0..(Cardinality(dir) + 1) :
        /\ ~PathExists(dir, model_id, n)
        /\ \A m \in 0..(n - 1) : PathExists(dir, model_id, m)

\* open(output_path, "w").write(edited_content)
WriteFile(dir, model_id, version, text) ==
    {f \in dir : ~(f.model_id = model_id /\ f.version = version)}
        \cup {[model_id |-> model_id, version |-> version, text |-> text]}

\* save_edited_text(filename, edited_content, model_name): the directory afterwards
save_edited_text(dir, edited_content, model_id) ==
    WriteFile(dir, model_id, FreeVersion(dir, model_id), edited_content)

\* is_already_edited: an edited file of this model exists (the glob
\* {name}-{model}* also matches the -chunked files) and there are no review notes
is_already_edited(dir, notes) == dir # {} /\ ~Truthy(notes)

(***************************************************************************)
(* Editing Orchestrator: edit_text_with_claude, process_document_in_chunks *)
(* and process_batch_item                                                  *)
(***************************************************************************)
\* a client.messages.create call: its kind, the chunk it is for (0 for a whole
\* document), how it ended and the text it returned
Call(kind, chunk_num) ==
    [kind |-> kind, chunk |-> chunk_num, outcome |-> "pending", text |-> None]

\* the last call, ended
EndCall(outcome, text) ==
    [calls EXCEPT ![Len(calls)] = [@ EXCEPT !.outcome = outcome, !.text = text]]

\* "if chunk_size > 0 and original_word_count > chunk_size"
UseChunks(size, text) == size > 0 /\ WordCount(text) > size

\* mutant: a retry whatever the first validation said
NeedsRetry_Always(validation_result) == TRUE

\* mutant: a retry only while a heartbeat thread is still in its loop
NeedsRetry_WhileHeartbeatAlive(validation_result) ==
    validation_result = "False" /\ \E m \in BagToSet(monitors) : m.thread # "exited"

\* "if not validation_result:" after the first validation
NeedsRetry(validation_result) == validation_result = "False"

\* mutant: a retry that is rejected too is discarded
AfterRetryValidation_Discards(validation_result) ==
    IF validation_result = "True" THEN "Saving" ELSE "Failed"

\* where the unit goes after the validation of the retry: the retry's text is
\* saved whether it passed or not
AfterRetryValidation(validation_result) ==
    IF validation_result = "ZeroDivisionError" THEN "Failed" ELSE "Saving"

\* the units of book_editor_agent.py
HostedUnits == {"edit_text_with_claude", "process_batch_item"}

\* the file a save into directory dir_name, whose files are dir, writes
Written(dir_name, dir, model_id) ==
    [dir |-> dir_name, model_id |-> model_id, version |-> FreeVersion(dir, model_id)]

\* AnthropicConnectionMonitor after __init__ and start_request: the flags, and
\* the heartbeat thread at the head of its loop
NewMonitor ==
    [thread |-> "loop", stop_heartbeat |-> FALSE, request_completed |-> FALSE,
     request_in_progress |-> TRUE]

\* stop_monitoring: the flags are set and the thread is joined for at most one
\* second, so the thread is left where it is
stop_monitoring(m) ==
    [m EXCEPT !.request_in_progress = FALSE, !.request_completed = TRUE,
              !.stop_heartbeat = TRUE]

\* mutant: a heartbeat loop that looks at no flag
heartbeat_turn_NeverLeaves(m) == [m EXCEPT !.thread = "sleep"]

\* one turn of _heartbeat_loop from the head of the loop: out of the loop when
\* stop_heartbeat or request_completed is set, else a status update and
\* time.sleep(2)
heartbeat_turn(m) ==
    IF m.stop_heartbeat THEN [m EXCEPT !.thread = "exited"]
    ELSE IF m.request_completed
         THEN [m EXCEPT !.stop_heartbeat = TRUE, !.request_in_progress = FALSE,
                        !.thread = "exited"]
    ELSE [m EXCEPT !.thread = "sleep"]

\* the bag ms with one monitor m replaced by n
Replace(ms, m, n) == (ms (-) SetToBag({m})) (+) SetToBag({n})

\* connection_monitor.start_request(api_spinner, ...) on a new monitor
StartMonitor(ms) == ms (+) SetToBag({NewMonitor})

\* the monitor the unit holds in connection_monitor (retry_connection_monitor)
\* between start_request and stop_monitoring: the one not stopped yet
RunningMonitor(ms) == CHOOSE m \in BagToSet(ms) : ~m.stop_heartbeat

\* stop_monitoring() on the monitor started last
StopLastMonitor(ms) == Replace(ms, RunningMonitor(ms), stop_monitoring(RunningMonitor(ms)))

\* the positions a heartbeat thread can be at
ThreadPositions == {"loop", "sleep", "exited"}

\* every monitor there can be
Monitors ==
    [thread : ThreadPositions, stop_heartbeat : BOOLEAN, request_completed : BOOLEAN,
     request_in_progress : BOOLEAN]

\* the heartbeat thread of a monitor m takes a turn of its loop
Heartbeat(m) ==
    /\ BagIn(m, monitors)
    /\ m.thread = "loop"
    /\ monitors' = Replace(monitors, m, heartbeat_turn(m))
    /\ UNCHANGED <<fvars, ovars, dvars, spinning>>

\* time.sleep(2) of the heartbeat thread of a monitor m is over
HeartbeatWakes(m) ==
    /\ BagIn(m, monitors)
    /\ m.thread = "sleep"
    /\ monitors' = Replace(monitors, m, [m EXCEPT !.thread = "loop"])
    /\ UNCHANGED <<fvars, ovars, dvars, spinning>>

\* edit_text_with_claude: "if is_already_edited(text_file, model): return None"
Start ==
    /\ unit = "edit_text_with_claude"
    /\ pc = "Idle"
    /\ pc' = IF is_already_edited(edited_dir, notes_read) THEN "Skipped" ELSE "Reading"
    /\ UNCHANGED <<fvars, dvars, tvars, qwen_edited_dir, writes, unit, readable, orig_text, notes_read, chunk_size, edited_dir,
                   alarm, calls, edit_text, validation, doc_chunks, chunk_i, edited_chunk,
                   edited_chunks, result>>

\* process_batch_item and qwen_editor_agent's edit_text_with_ollama start by
\* reading, outside of any try
StartBatchItem ==
    /\ unit \in {"process_batch_item", "edit_text_with_ollama"}
    /\ pc = "Idle"
    /\ pc' = "Reading"
    /\ UNCHANGED <<fvars, dvars, tvars, qwen_edited_dir, writes, unit, readable, orig_text, notes_read, chunk_size, edited_dir,
                   alarm, calls, edit_text, validation, doc_chunks, chunk_i, edited_chunk,
                   edited_chunks, result>>

\* read_file_content and get_review_notes succeed; edit_text_with_claude then
\* hands a document over the chunk size to process_document_in_chunks, which
\* splits it
Read ==
    /\ pc = "Reading"
    /\ readable
    /\ IF unit = "edit_text_with_claude" /\ UseChunks(chunk_size, orig_text)
       THEN /\ doc_chunks' = chunk_document(orig_text, chunk_size, TRUE)
            /\ chunk_i' = 1
            /\ pc' = "ChunkPrompting"
       ELSE /\ pc' = "Prompting"
            /\ UNCHANGED <<doc_chunks, chunk_i>>
    /\ UNCHANGED <<fvars, dvars, tvars, qwen_edited_dir, writes, unit, readable, orig_text, notes_read, chunk_size, edited_dir,
                   alarm, calls, edit_text, validation, edited_chunk, edited_chunks, result>>

\* read_file_content raises: edit_text_with_claude catches it and returns None,
\* process_batch_item lets it through to its caller; the spinner started
\* before the read is not stopped
ReadFails ==
    /\ pc = "Reading"
    /\ ~readable
    /\ pc' = IF unit = "edit_text_with_claude" THEN "Failed" ELSE "Raised"
    /\ spinning' = IF unit = "edit_text_with_claude" THEN spinning \cup {"Reading input file..."}
                   ELSE IF unit = "process_batch_item" THEN spinning \cup {"Reading text_file..."}
                   ELSE spinning
    /\ UNCHANGED monitors
    /\ UNCHANGED <<fvars, dvars, qwen_edited_dir, writes, unit, readable, orig_text, notes_read, chunk_size, edited_dir,
                   alarm, calls, edit_text, validation, doc_chunks, chunk_i, edited_chunk,
                   edited_chunks, result>>

\* the prompt is built and sent; edit_text_with_claude arms the alarm first
Prompt ==
    /\ pc = "Prompting"
    /\ alarm' = (unit = "edit_text_with_claude")
    /\ calls' = Append(calls, Call("initial", 0))
    /\ pc' = "AwaitingCompletion"
    /\ IF unit \in HostedUnits
       THEN /\ monitors' = StartMonitor(monitors)
            /\ spinning' = spinning \cup {"api_spinner"}
       ELSE UNCHANGED tvars
    /\ UNCHANGED <<fvars, dvars, qwen_edited_dir, writes, unit, readable, orig_text, notes_read, chunk_size, edited_dir,
                   edit_text, validation, doc_chunks, chunk_i, edited_chunk, edited_chunks, result>>

\* the first call returns response: the alarm is cancelled, the text cleaned
Completion(response) ==
    /\ pc = "AwaitingCompletion"
    /\ unit \in HostedUnits
    /\ alarm' = FALSE
    /\ calls' = EndCall("ok", response)
    /\ edit_text' = cleanup_response(response)
    /\ pc' = "Validating"
    /\ monitors' = StopLastMonitor(monitors)
    /\ spinning' = spinning \ {"api_spinner"}
    /\ UNCHANGED <<fvars, dvars, qwen_edited_dir, writes, unit, readable, orig_text, notes_read, chunk_size, edited_dir,
                   validation, doc_chunks, chunk_i, edited_chunk, edited_chunks, result>>

\* the first call raises: the unit returns None
CompletionFails ==
    /\ pc = "AwaitingCompletion"
    /\ alarm' = FALSE
    /\ calls' = EndCall("error", None)
    /\ pc' = "Failed"
    /\ IF unit \in HostedUnits
       THEN /\ monitors' = StopLastMonitor(monitors)
            /\ spinning' = spinning \ {"api_spinner"}
       ELSE UNCHANGED tvars
    /\ UNCHANGED <<fvars, dvars, qwen_edited_dir, writes, unit, readable, orig_text, notes_read, chunk_size, edited_dir,
                   edit_text, validation, doc_chunks, chunk_i, edited_chunk, edited_chunks, result>>

\* SIGALRM while the first call is in flight: timeout_handler raises TimeoutError
Timeout ==
    /\ pc = "AwaitingCompletion"
    /\ alarm
    /\ alarm' = FALSE
    /\ calls' = EndCall("timeout", None)
    /\ pc' = "Failed"
    /\ monitors' = StopLastMonitor(monitors)
    /\ spinning' = spinning \ {"api_spinner"}
    /\ UNCHANGED <<fvars, dvars, qwen_edited_dir, writes, unit, readable, orig_text, notes_read, chunk_size, edited_dir,
                   edit_text, validation, doc_chunks, chunk_i, edited_chunk, edited_chunks, result>>

\* validate_edited_text(orig_text, edit_text, notes_read) on the first response
Validate ==
    /\ pc = "Validating"
    /\ LET validation_result == validate_edited_text(orig_text, edit_text, notes_read)
       IN  /\ validation' = Append(validation, validation_result)
           /\ pc' = IF validation_result = "ZeroDivisionError" THEN "Failed"
                    ELSE IF NeedsRetry(validation_result) THEN "Retrying"
                    ELSE "Saving"
           /\ spinning' = IF validation_result = "ZeroDivisionError"
                               /\ unit = "edit_text_with_claude"
                          THEN spinning \cup {"Validating edited text..."}
                          ELSE spinning
    /\ UNCHANGED <<fvars, dvars, monitors, qwen_edited_dir, writes, unit, readable, orig_text, notes_read, chunk_size, edited_dir,
                   alarm, calls, edit_text, doc_chunks, chunk_i, edited_chunk, edited_chunks, result>>

\* the retry prompt is built and sent (no alarm is armed for it)
Retry ==
    /\ pc = "Retrying"
    /\ calls' = Append(calls, Call("retry", 0))
    /\ pc' = "AwaitingRetry"
    /\ monitors' = StartMonitor(monitors)
    /\ spinning' = spinning \cup {"retry_api_spinner"}
    /\ UNCHANGED <<fvars, dvars, qwen_edited_dir, writes, unit, readable, orig_text, notes_read, chunk_size, edited_dir,
                   alarm, edit_text, validation, doc_chunks, chunk_i, edited_chunk, edited_chunks,
                   result>>

\* the retry call returns response: it replaces edit_text, cleaned
RetryCompletion(response) ==
    /\ pc = "AwaitingRetry"
    /\ calls' = EndCall("ok", response)
    /\ edit_text' = cleanup_response(response)
    /\ pc' = "ValidatingRetry"
    /\ monitors' = StopLastMonitor(monitors)
    /\ spinning' = spinning \ {"retry_api_spinner"}
    /\ UNCHANGED <<fvars, dvars, qwen_edited_dir, writes, unit, readable, orig_text, notes_read, chunk_size, edited_dir,
                   alarm, validation, doc_chunks, chunk_i, edited_chunk, edited_chunks, result>>

\* mutant: when the retry call raises, the first response is written
RetryFails_SavesFirst ==
    /\ pc = "AwaitingRetry"
    /\ calls' = EndCall("error", None)
    /\ edited_dir' = save_edited_text(edited_dir, edit_text, "model")
    /\ writes' = Append(writes, Written("edited-texts", edited_dir, "model"))
    /\ pc' = "Failed"
    /\ monitors' = StopLastMonitor(monitors)
    /\ spinning' = spinning \ {"retry_api_spinner"}
    /\ UNCHANGED <<fvars, dvars, qwen_edited_dir, unit, readable, orig_text, notes_read, chunk_size,
                   alarm, edit_text, validation, doc_chunks, chunk_i, edited_chunk,
                   edited_chunks, result>>

\* the retry call raises: the unit returns None
RetryFails ==
    /\ pc = "AwaitingRetry"
    /\ calls' = EndCall("error", None)
    /\ pc' = "Failed"
    /\ monitors' = StopLastMonitor(monitors)
    /\ spinning' = spinning \ {"retry_api_spinner"}
    /\ UNCHANGED <<fvars, dvars, qwen_edited_dir, writes, unit, readable, orig_text, notes_read, chunk_size, edited_dir,
                   alarm, edit_text, validation, doc_chunks, chunk_i, edited_chunk, edited_chunks,
                   result>>

\* the final validation: a warning at most
ValidateRetry ==
    /\ pc = "ValidatingRetry"
    /\ LET validation_result == validate_edited_text(orig_text, edit_text, notes_read)
       IN  /\ validation' = Append(validation, validation_result)
           /\ pc' = AfterRetryValidation(validation_result)
    /\ UNCHANGED <<fvars, dvars, tvars, qwen_edited_dir, writes, unit, readable, orig_text, notes_read, chunk_size, edited_dir,
                   alarm, calls, edit_text, doc_chunks, chunk_i, edited_chunk, edited_chunks, result>>

\* save_edited_text(text_file, edit_text, model) writes the file; then
\* edit_text_with_claude divides by original_word_count for its statistics
Save ==
    /\ pc = "Saving"
    /\ unit \in HostedUnits
    /\ edited_dir' = save_edited_text(edited_dir, edit_text, "model")
    /\ writes' = Append(writes, Written("edited-texts", edited_dir, "model"))
    /\ IF unit = "edit_text_with_claude" /\ WordCount(orig_text) = 0
       THEN pc' = "Failed" /\ UNCHANGED result
       ELSE pc' = "Done" /\ result' = edit_text
    /\ UNCHANGED <<fvars, dvars, tvars, qwen_edited_dir, unit, readable, orig_text, notes_read, chunk_size,
                   alarm, calls, edit_text, validation, doc_chunks, chunk_i, edited_chunk,
                   edited_chunks>>

\* save_edited_text raises (the directory or the file cannot be written);
\* process_batch_item stops the spinner it started last, edit_text_with_claude
\* and process_document_in_chunks do not
SaveFails ==
    /\ pc \in {"Saving", "SavingChunked"}
    /\ pc' = "Failed"
    /\ spinning' = IF unit # "edit_text_with_claude" THEN spinning
                   ELSE IF pc = "Saving" THEN spinning \cup {"Saving edited text..."}
                   ELSE spinning \cup {"Saving combined result..."}
    /\ UNCHANGED <<fvars, dvars, monitors, qwen_edited_dir, writes, unit, readable, orig_text, notes_read, chunk_size, edited_dir,
                   alarm, calls, edit_text, validation, doc_chunks, chunk_i, edited_chunk,
                   edited_chunks, result>>

\* process_document_in_chunks: the prompt of chunk chunk_i is built and sent
ChunkPrompt ==
    /\ pc = "ChunkPrompting"
    /\ calls' = Append(calls, Call("chunk", chunk_i))
    /\ pc' = "AwaitingChunk"
    /\ monitors' = StartMonitor(monitors)
    /\ spinning' = spinning \cup {"api_spinner"}
    /\ UNCHANGED <<fvars, dvars, qwen_edited_dir, writes, unit, readable, orig_text, notes_read, chunk_size, edited_dir,
                   alarm, edit_text, validation, doc_chunks, chunk_i, edited_chunk, edited_chunks,
                   result>>

\* the loop goes to the next chunk, or ends
NextChunkPc == IF chunk_i < Len(doc_chunks) THEN "ChunkPrompting" ELSE "Combining"

\* the call of a chunk returns response: cleaned and appended
ChunkCompletion(response) ==
    /\ pc = "AwaitingChunk"
    /\ calls' = EndCall("ok", response)
    /\ edited_chunk' = cleanup_response(response)
    /\ edited_chunks' = Append(edited_chunks, cleanup_response(response))
    /\ chunk_i' = chunk_i + 1
    /\ pc' = NextChunkPc
    /\ monitors' = StopLastMonitor(monitors)
    /\ spinning' = spinning \ {"api_spinner"}
    /\ UNCHANGED <<fvars, dvars, qwen_edited_dir, writes, unit, readable, orig_text, notes_read, chunk_size, edited_dir,
                   alarm, edit_text, validation, doc_chunks, result>>

\* the call of a chunk raises: "if edited_chunk := locals().get('edited_chunk')"
\* appends whatever edited_chunk still holds from an earlier turn
ChunkFails ==
    /\ pc = "AwaitingChunk"
    /\ calls' = EndCall("error", None)
    /\ edited_chunks' = IF Truthy(edited_chunk) THEN Append(edited_chunks, edited_chunk)
                        ELSE edited_chunks
    /\ chunk_i' = chunk_i + 1
    /\ pc' = NextChunkPc
    /\ monitors' = StopLastMonitor(monitors)
    /\ spinning' = spinning \ {"api_spinner"}
    /\ UNCHANGED <<fvars, dvars, qwen_edited_dir, writes, unit, readable, orig_text, notes_read, chunk_size, edited_dir,
                   alarm, edit_text, validation, doc_chunks, edited_chunk, result>>

\* after the loop: nothing processed returns None, else the doc_chunks are joined
Combine ==
    /\ pc = "Combining"
    /\ IF edited_chunks = <<>>
       THEN pc' = "Failed" /\ UNCHANGED edit_text
       ELSE pc' = "SavingChunked" /\ edit_text' = join(NLNL, edited_chunks)
    /\ UNCHANGED <<fvars, dvars, tvars, qwen_edited_dir, writes, unit, readable, orig_text, notes_read, chunk_size, edited_dir,
                   alarm, calls, validation, doc_chunks, chunk_i, edited_chunk, edited_chunks, result>>

\* save_edited_text(text_file, combined_text, f"{model}-chunked")
SaveChunked ==
    /\ pc = "SavingChunked"
    /\ edited_dir' = save_edited_text(edited_dir, edit_text, "model-chunked")
    /\ writes' = Append(writes, Written("edited-texts", edited_dir, "model-chunked"))
    /\ pc' = "Done"
    /\ result' = edit_text
    /\ UNCHANGED <<fvars, dvars, tvars, qwen_edited_dir, unit, readable, orig_text, notes_read, chunk_size,
                   alarm, calls, edit_text, validation, doc_chunks, chunk_i, edited_chunk,
                   edited_chunks>>

\* qwen_editor_agent.edit_text_with_ollama: the call returns response;
\* "content = response.strip()", no validation
OllamaCompletion(response) ==
    /\ pc = "AwaitingCompletion"
    /\ unit = "edit_text_with_ollama"
    /\ calls' = EndCall("ok", response)
    /\ edit_text' = strip(response)
    /\ pc' = "Saving"
    /\ UNCHANGED <<fvars, dvars, tvars, qwen_edited_dir, writes, unit, readable, orig_text, notes_read,
                   chunk_size, edited_dir, alarm, validation, doc_chunks, chunk_i, edited_chunk,
                   edited_chunks, result>>

\* qwen_editor_agent.save_edited_text writes the file in qwen-edited-texts/
\* and then a copy in edited-texts/
SaveOllama ==
    /\ pc = "Saving"
    /\ unit = "edit_text_with_ollama"
    /\ qwen_edited_dir' = save_edited_text(qwen_edited_dir, edit_text, "model")
    /\ edited_dir' = save_edited_text(edited_dir, edit_text, "model")
    /\ writes' = writes \o <<Written("qwen-edited-texts", qwen_edited_dir, "model"),
                              Written("edited-texts", edited_dir, "model")>>
    /\ pc' = "Done"
    /\ result' = edit_text
    /\ UNCHANGED <<fvars, dvars, tvars, unit, readable, orig_text, notes_read, chunk_size, alarm, calls,
                   edit_text, validation, doc_chunks, chunk_i, edited_chunk, edited_chunks>>

\* qwen_editor_agent.save_edited_text: the first file is written, writing the
\* copy raises
SaveOllamaCopyFails ==
    /\ pc = "Saving"
    /\ unit = "edit_text_with_ollama"
    /\ qwen_edited_dir' = save_edited_text(qwen_edited_dir, edit_text, "model")
    /\ writes' = Append(writes, Written("qwen-edited-texts", qwen_edited_dir, "model"))
    /\ pc' = "Failed"
    /\ UNCHANGED <<fvars, dvars, tvars, unit, readable, orig_text, notes_read, chunk_size, edited_dir, alarm,
                   calls, edit_text, validation, doc_chunks, chunk_i, edited_chunk,
                   edited_chunks, result>>

(***************************************************************************)
(* Pure-function runs: the chunker                                         *)
(***************************************************************************)
\* the orchestrator at rest, for the runs of a single function
OrchIdle ==
    /\ unit = "none" /\ pc = "none" /\ readable = FALSE
    /\ orig_text = <<>> /\ notes_read = None /\ chunk_size = 0
    /\ edited_dir = {} /\ alarm = FALSE /\ calls = <<>> /\ edit_text = <<>>
    /\ validation = <<>> /\ doc_chunks = <<>> /\ chunk_i = 0 /\ edited_chunk = None
    /\ edited_chunks = <<>> /\ result = None
    /\ qwen_edited_dir = {} /\ writes = <<>>
    /\ batch = BatchIdle

ChunkAlphabet == {"a", SP, NL}

ChunkTexts == UNION {[1..n -> ChunkAlphabet] : n \in 0..MaxTextLen}

InitChunk ==
    /\ OrchIdle
    /\ RestIdle
    /\ fn = "chunk_document"
    /\ fpc = "call"
    /\ \E t \in ChunkTexts, m \in 1..MaxBudget, pp \in BOOLEAN :
          args = [text |-> t, max_words |-> m, preserve_paragraphs |-> pp]
    /\ ret = <<>>

CallChunkDocument ==
    /\ fn = "chunk_document"
    /\ fpc = "call"
    /\ ret' = chunk_document(args.text, args.max_words, args.preserve_paragraphs)
    /\ fpc' = "return"
    /\ UNCHANGED <<fn, args, ovars, dvars, tvars>>

NextChunk == CallChunkDocument

SpecChunk == InitChunk /\ [][NextChunk]_vars

\* the paragraphs of all chunks, in chunk order
RECURSIVE ChunkParagraphs(_)
ChunkParagraphs(chunks) ==
    IF chunks = <<>> THEN <<>>
    ELSE Paragraphs(chunks[1]) \o ChunkParagraphs(Tail(chunks))

\* C1: with preserve_paragraphs, the paragraphs of the returned chunks, taken in
\* chunk order, are exactly the document's non-empty blank-line-separated
\* paragraphs (none lost, duplicated, reordered or split across two chunks).
C1_ChunksKeepParagraphs ==
    (fn = "chunk_document" /\ fpc = "return" /\ args.preserve_paragraphs)
        => ChunkParagraphs(ret) = Paragraphs(args.text)

\* C1 witness: a document over budget was cut into at least three chunks
C1_Witness ==
    /\ fn = "chunk_document" /\ fpc = "return" /\ args.preserve_paragraphs
    /\ WordCount(args.text) > args.max_words
    /\ Len(ret) >= 3

\* C2: every returned chunk has at most max_words words, except a chunk that is
\* exactly one paragraph whose own word count exceeds max_words.
C2_ChunksWithinBudget ==
    (fn = "chunk_document" /\ fpc = "return" /\ args.preserve_paragraphs)
        => \A k \in 1..Len(ret) :
              \/ WordCount(ret[k]) <= args.max_words
              \/ /\ Len(Paragraphs(ret[k])) = 1
                 /\ \E j \in 1..Len(Paragraphs(args.text)) :
                       /\ Paragraphs(args.text)[j] = ret[k]
                       /\ WordCount(Paragraphs(args.text)[j]) > args.max_words

\* C2 witness: a run that returned both an oversized single-paragraph chunk and
\* a chunk within the budget
C2_Witness ==
    /\ fn = "chunk_document" /\ fpc = "return" /\ args.preserve_paragraphs
    /\ \E k \in 1..Len(ret) :
          WordCount(ret[k]) > args.max_words /\ Len(Paragraphs(ret[k])) = 1
    /\ \E k \in 1..Len(ret) : WordCount(ret[k]) <= args.max_words

(***************************************************************************)
(* Pure-function runs: the two validators                                  *)
(***************************************************************************)
\* n copies of s
Rep(s, n) == [i \in 1..(n * Len(s)) |-> s[((i - 1) % Len(s)) + 1]]

\* a document of p paragraphs of w one-letter words each
Doc(p, w) == join(NLNL, [k \in 1..p |-> join(<<SP>>, [j \in 1..w |-> <<"a">>])])

\* openings put before an edited document: none, a summary indicator at the
\* start, and one that ends inside / straddles the end of the first-100-words window
Leads == {
    <<>>,
    <<"T","h","i","s"," ","t","e","x","t"," ">>,
    <<"S","u","m","m","a","r","y"," ","o","f"," ">>,
    Rep(<<"a", SP>>, SummaryWindowWords - 2) \o <<"t","h","i","s"," ","t","e","x","t"," ">>,
    Rep(<<"a", SP>>, SummaryWindowWords - 1) \o <<"t","h","i","s"," ","t","e","x","t"," ">>
}

\* openings put before an original document
OriginalLeads == {<<>>, <<"T","h","i","s"," ","t","e","x","t"," ">>}

\* whitespace-only texts
BlankTexts == {<<SP>>, <<NL, NL>>}

OriginalTexts ==
    {lead \o Doc(p, w) : lead \in OriginalLeads, p \in 0..MaxParas, w \in 1..MaxParaWords}
        \cup BlankTexts

EditedTexts ==
    {lead \o Doc(p, w) : lead \in Leads, p \in 0..MaxParas, w \in 1..MaxParaWords}
        \cup BlankTexts

ReviewNotesValues == {None, <<>>, <<"n">>}

InitValidate ==
    /\ OrchIdle
    /\ RestIdle
    /\ fpc = "call"
    /\ ret = "None"
    /\ \E o \in OriginalTexts, e \in EditedTexts :
          \/ /\ fn = "validate_edited_text"
             /\ \E rn \in ReviewNotesValues :
                   args = [original_text |-> o, edited_text |-> e, review_notes |-> rn]
          \/ /\ fn = "open_validate_edited_text"
             /\ \E rne \in BOOLEAN :
                   args = [original_text |-> o, edited_text |-> e, review_notes_exist |-> rne]

CallValidate ==
    /\ fn = "validate_edited_text"
    /\ fpc = "call"
    /\ ret' = validate_edited_text(args.original_text, args.edited_text, args.review_notes)
    /\ fpc' = "return"
    /\ UNCHANGED <<fn, args, ovars, dvars, tvars>>

CallOpenValidate ==
    /\ fn = "open_validate_edited_text"
    /\ fpc = "call"
    /\ ret' = open_validate_edited_text(args.original_text, args.edited_text,
                                        args.review_notes_exist)
    /\ fpc' = "return"
    /\ UNCHANGED <<fn, args, ovars, dvars, tvars>>

NextValidate == CallValidate \/ CallOpenValidate

SpecValidate == InitValidate /\ [][NextValidate]_vars

\* a return of the hosted-API validator / of either validator, called without review notes
BookReturned == fn = "validate_edited_text" /\ fpc = "return"
NoNotesReturned ==
    /\ fpc = "return"
    /\ \/ fn = "validate_edited_text" /\ ~Truthy(args.review_notes)
       \/ fn = "open_validate_edited_text" /\ ~args.review_notes_exist

\* the word and paragraph counts the claims speak of
OW == WordCount(args.original_text)
EW == WordCount(args.edited_text)
OP == Len(Paragraphs(args.original_text))
EP == Len(Paragraphs(args.edited_text))

\* the first 100 words of text t, lower-cased and joined by single spaces,
\* contain one of the summary-indicator phrases
IndicatorInFirst100(t) ==
    LET w == split(t)
        head == IF Len(w) <= 100 THEN w ELSE SubSeq(w, 1, 100)
    IN  \E k \in 1..Len(summary_phrases) : Contains(lower(join(<<SP>>, head)), summary_phrases[k])

\* C5: without review notes and with an original of at least one word, the
\* hosted-API validator rejects exactly when the word ratio is below 0.9, or the
\* original has more than 3 paragraphs and the edit fewer than 0.9 times as
\* many, or the first 100 words of the edit contain a summary indicator; in
\* every other case it accepts.
C5_NoNotesPolicy ==
    (BookReturned /\ ~Truthy(args.review_notes) /\ OW >= 1)
        => LET rejects == \/ EW * 10 < OW * 9
                          \/ (OP > 3 /\ EP * 10 < OP * 9)
                          \/ IndicatorInFirst100(args.edited_text)
           IN  ret = (IF rejects THEN "False" ELSE "True")

\* C5 witness: an edit whose only indicator phrase lies across the end of the
\* first 100 words is accepted, long enough and with paragraphs enough
C5_Witness ==
    /\ BookReturned /\ ~Truthy(args.review_notes) /\ OW >= 1
    /\ OP > 3 /\ EP * 10 >= OP * 9
    /\ EW > 100
    /\ ret = "True"

\* C6: with review notes present and an original of at least one word, the
\* hosted-API validator accepts exactly when edited words / original words >= 0.5,
\* whatever the paragraph counts and the summary indicators.
C6_NotesPolicy ==
    (BookReturned /\ Truthy(args.review_notes) /\ OW >= 1)
        => ret = (IF EW * 2 >= OW THEN "True" ELSE "False")

\* C6 witness: an edit with collapsed paragraphs, a summary indicator and a word
\* ratio between 0.5 and 0.9 is accepted because review notes are present
C6_Witness ==
    /\ BookReturned /\ Truthy(args.review_notes)
    /\ OP > 3 /\ EP * 10 < OP * 9
    /\ IndicatorInFirst100(args.edited_text)
    /\ EW * 2 >= OW /\ EW * 10 < OW * 9
    /\ ret = "True"

\* C7 as claimed: an edit identical to the original, validated without review
\* notes, is accepted (stated over the calls that return a verdict, so that the
\* division by a zero word count is not what refutes it).
C7_IdenticalAlwaysAccepted ==
    (NoNotesReturned /\ args.edited_text = args.original_text /\ ret # "ZeroDivisionError")
        => ret = "True"

\* C7 amended: for a text X of at least one word, validating X against itself
\* without review notes accepts unless the first 100 words of X contain a
\* summary indicator, and then it rejects (either validator).
C7_IdenticalAcceptedUnlessIndicator ==
    (NoNotesReturned /\ args.edited_text = args.original_text /\ OW >= 1)
        => ret = (IF IndicatorInFirst100(args.original_text) THEN "False" ELSE "True")

\* C7 witness: a text of more than 3 paragraphs validated against itself and accepted
C7_Witness ==
    /\ NoNotesReturned /\ args.edited_text = args.original_text
    /\ OW >= 1 /\ OP > 3
    /\ ret = "True"

C9_ZeroWordOriginalAccepted ==
    (fpc = "return" /\ fn \in {"validate_edited_text", "open_validate_edited_text"} /\ OW = 0)
        => ret = "True"

(***************************************************************************)
(* Pure-function runs: the cleaner, applied and applied again               *)
(***************************************************************************)
CleanupSegments == {
    <<"/","/">>,
    <<"-","-","-">>,
    <<"e","d","i","t">>,
    <<SP>>,
    <<"N","o","t","e">>,
    <<"E","d","i","t","e","d"," ","a","c","c","o","r","d","i","n","g"," ","t","o">>,
    <<"T","h","i","s"," ","e","d","i","t"," ","m","a","i","n","t","a","i","n","s">>
}

\* the texts made of at most n segments
RECURSIVE SegmentTexts(_)
SegmentTexts(n) ==
    IF n = 0 THEN {<<>>}
    ELSE LET shorter == SegmentTexts(n - 1)
         IN  shorter \cup {t \o g : t \in shorter, g \in CleanupSegments}

CleanupTexts ==
    {Rep(<<"a">>, b) \o t : b \in {0, BodyLen}, t \in SegmentTexts(MaxSegments)}

InitCleanup ==
    /\ OrchIdle
    /\ RestIdle
    /\ fn = "cleanup_response"
    /\ fpc = "call"
    /\ \E t \in CleanupTexts : args = [text |-> t]
    /\ ret = <<>>

\* cleaned = cleanup_response(text)
CallCleanup ==
    /\ fn = "cleanup_response"
    /\ fpc = "call"
    /\ ret' = <<cleanup_response(args.text)>>
    /\ fpc' = "return"
    /\ UNCHANGED <<fn, args, ovars, dvars, tvars>>

\* cleanup_response(cleaned), the cleaner applied to its own result
CallCleanupAgain ==
    /\ fn = "cleanup_response"
    /\ fpc = "return"
    /\ ret' = Append(ret, cleanup_response(ret[1]))
    /\ fpc' = "again"
    /\ UNCHANGED <<fn, args, ovars, dvars, tvars>>

NextCleanup == CallCleanup \/ CallCleanupAgain

SpecCleanup == InitCleanup /\ [][NextCleanup]_vars

\* C10: cleanup_response is idempotent: applied to its own result it returns
\* that result unchanged.
C10_CleanupIdempotent ==
    (fn = "cleanup_response" /\ fpc = "again") => ret[2] = ret[1]


\* the listed sign-off phrases that occur in text
PhrasesIn(text) == {k \in 1..Len(ending_phrases) : Contains(text, ending_phrases[k])}

\* C11: for a raw text that contains a listed sign-off phrase, what
\* cleanup_response returns is a leading segment of the text, trimmed of
\* surrounding whitespace, that ends before the first occurrence of every
\* listed phrase the text contains, and no listed phrase occurs in it.
C11_TruncatedAtSignOff ==
    (fn = "cleanup_response" /\ fpc = "return" /\ PhrasesIn(args.text) # {}) =>
        /\ \E m \in 0..Len(args.text) :
              /\ ret[1] = strip(SubSeq(args.text, 1, m))
              /\ \A k \in PhrasesIn(args.text) : m < FindFrom(args.text, ending_phrases[k], 1)
        /\ PhrasesIn(ret[1]) = {}

\* a text with leading whitespace and two different sign-off phrases, the one
\* listed later first, is cut to a non-empty text
C11_Witness ==
    /\ fn = "cleanup_response" /\ fpc = "return"
    /\ PhrasesIn(args.text) = {7, 8}
    /\ FindFrom(args.text, ending_phrases[8], 1) < FindFrom(args.text, ending_phrases[7], 1)
    /\ args.text[1] = SP
    /\ ret[1] # <<>>
    /\ Len(ret[1]) < FindFrom(args.text, ending_phrases[8], 1) - 1


(***************************************************************************)
(* The editing unit: one document through edit_text_with_claude or         *)
(* process_batch_item                                                      *)
(***************************************************************************)
\* "I have edited the text", a sign-off cleanup_response cuts
SignOff == <<NL, NL>> \o ending_phrases[2]

\* documents of one-word paragraphs, the empty document among them
OrchDocs == {Doc(p, 1) : p \in 0..OrchParas}

\* what a whole-document call may return: shorter and full-length texts, and
\* a one-paragraph and a full-length text followed by a sign-off
OrchResponses == OrchDocs \cup {Doc(p, 1) \o SignOff : p \in {1, OrchParas}}

\* what the call of a chunk may return
ChunkResponses == {<<>>, <<"a">>, <<"a">> \o SignOff}

\* the files already in edited-texts/ for this document: none, the unversioned
\* one, the unversioned one and -1, ...
ExistingFile(v) == [model_id |-> "model", version |-> v, text |-> <<"o">>]
ExistingDirs == {{ExistingFile(v) : v \in 0..(n - 1)} : n \in 0..MaxExisting}

Init ==
    /\ fn = "none" /\ args = <<>> /\ ret = <<>> /\ fpc = "none"
    /\ unit \in {"edit_text_with_claude", "process_batch_item", "edit_text_with_ollama"}
    /\ pc = "Idle"
    /\ readable \in BOOLEAN
    /\ orig_text \in OrchDocs
    /\ notes_read \in ReviewNotesValues
    /\ chunk_size \in 0..MaxChunkSize
    /\ edited_dir \in ExistingDirs
    /\ alarm = FALSE
    /\ calls = <<>>
    /\ edit_text = None
    /\ validation = <<>>
    /\ doc_chunks = <<>>
    /\ chunk_i = 0
    /\ edited_chunk = None
    /\ edited_chunks = <<>>
    /\ result = None
    /\ qwen_edited_dir = {}
    /\ writes = <<>>
    /\ batch = BatchIdle
    /\ RestIdle

Next ==
    \/ Start
    \/ StartBatchItem
    \/ Read
    \/ ReadFails
    \/ Prompt
    \/ \E response \in OrchResponses : Completion(response)
    \/ CompletionFails
    \/ Timeout
    \/ Validate
    \/ Retry
    \/ \E response \in OrchResponses : RetryCompletion(response)
    \/ RetryFails
    \/ ValidateRetry
    \/ Save
    \/ SaveFails
    \/ ChunkPrompt
    \/ \E response \in ChunkResponses : ChunkCompletion(response)
    \/ ChunkFails
    \/ Combine
    \/ SaveChunked
    \/ \E response \in OrchResponses : OllamaCompletion(response)
    \/ SaveOllama
    \/ SaveOllamaCopyFails
    \/ \E m \in Monitors : Heartbeat(m)
    \/ \E m \in Monitors : HeartbeatWakes(m)

Spec == Init /\ [][Next]_vars

\* the unit went through process_document_in_chunks
Chunked == doc_chunks # <<>>

\* the loop over the chunks is over
ChunkLoopOver == pc \notin {"ChunkPrompting", "AwaitingChunk"}

\* C3: a whole-document unit of book_editor_agent.py makes at most two
\* completion calls, the initial one and one retry; the retry is made only after the validator
\* rejected the first cleaned response, and a unit that gets to save after a
\* rejection has made it.  A chunked document makes one call per chunk, in
\* order, never a second one for a chunk, and has made one for every chunk
\* when its loop is over.
C3_CompletionCalls ==
    unit \in HostedUnits =>
        IF Chunked
        THEN /\ Len(calls) <= Len(doc_chunks)
             /\ \A k \in 1..Len(calls) : calls[k].kind = "chunk" /\ calls[k].chunk = k
             /\ ChunkLoopOver => Len(calls) = Len(doc_chunks)
        ELSE /\ Len(calls) <= 2
             /\ Len(calls) >= 1 => calls[1].kind = "initial"
             /\ Len(calls) = 2 =>
                   /\ calls[2].kind = "retry"
                   /\ calls[1].outcome = "ok"
                   /\ validation[1] = "False"
                   /\ validate_edited_text(orig_text, cleanup_response(calls[1].text), notes_read)
                          = "False"
             /\ (pc \in {"Saving", "Done"} /\ validation[1] = "False") => Len(calls) = 2

\* a whole-document unit is done after an initial call and a retry
C3_Witness ==
    /\ ~Chunked
    /\ pc = "Done"
    /\ Len(calls) = 2
    /\ calls[1].kind = "initial" /\ calls[2].kind = "retry"

\* the file a step has added to edited-texts/
NewFiles == edited_dir' \ edited_dir

\* C4: in a whole-document unit whose first response was rejected and whose
\* retry call returned, the text held is the cleaned retry response, the unit's
\* step after the validation of the retry is to Saving whether that validation
\* accepted or rejected, and the file saved holds the cleaned retry response.
C4_RetryOutputSaved ==
    [][ (~Chunked /\ Len(calls) = 2 /\ calls[2].outcome = "ok") =>
            /\ edit_text = cleanup_response(calls[2].text)
            /\ (pc = "ValidatingRetry" /\ ovars' # ovars) =>
                  (pc' = "Saving" /\ edit_text' = edit_text)
            /\ (pc = "Saving" /\ pc' = "Done") =>
                  /\ Cardinality(NewFiles) = 1
                  /\ \A f \in NewFiles : f.text = cleanup_response(calls[2].text)
                  /\ result' = cleanup_response(calls[2].text) ]_vars

\* a unit is done with its retry rejected too, and the cleaned retry response,
\* which differs from the raw one, is in a file
C4_Witness ==
    /\ ~Chunked
    /\ pc = "Done"
    /\ validation = <<"False", "False">>
    /\ calls[2].outcome = "ok"
    /\ calls[2].text # cleanup_response(calls[2].text)
    /\ \E f \in edited_dir : f.text = cleanup_response(calls[2].text)

\* the cleaned responses of the chunk calls that returned, in chunk order
SucceededChunks ==
    LET ok == SelectSeq(calls, LAMBDA c : c.outcome = "ok")
    IN  [k \in 1..Len(ok) |-> cleanup_response(ok[k].text)]

\* C12: in chunked processing the combined text that is saved is the join with
\* blank lines of the cleaned responses of the chunks whose call succeeded,
\* each once and in chunk order; a chunk whose call failed adds nothing, and
\* when no call succeeded the unit fails and nothing is saved.
C12_CombinedIsJoinOfSucceeded ==
    (Chunked /\ ChunkLoopOver) =>
        /\ pc \in {"SavingChunked", "Done"} => edit_text = join(NLNL, SucceededChunks)
        /\ pc = "Done" => \E f \in edited_dir : f.model_id = "model-chunked"
                                                  /\ f.text = join(NLNL, SucceededChunks)
        /\ SucceededChunks = <<>> =>
              /\ pc \in {"Combining", "Failed"}
              /\ \A f \in edited_dir : f.model_id # "model-chunked"

\* C13: in chunked processing every chunk whose call returned has had its
\* cleaned response validated (a verdict of the validator is recorded for it)
\* before the chunk outputs are joined, and no retry call is made.
C13_ChunksValidated ==
    (Chunked /\ ChunkLoopOver) =>
        /\ Len(validation) = Len(SucceededChunks)
        /\ \A k \in 1..Len(calls) : calls[k].kind # "retry"

(***************************************************************************)
(* Save runs: save_edited_text called a number of times on a directory     *)
(***************************************************************************)
SaveModels == {"model", "model-chunked"}

\* the directories before the first save: any of the files of versions
\* 0..MaxVersion of the two model ids, with gaps in the versions
SaveDirs ==
    SUBSET {[model_id |-> m, version |-> v, text |-> <<"o">>] :
                m \in SaveModels, v \in 0..MaxVersion}

InitSave ==
    /\ fn = "save_edited_text"
    /\ fpc = 0
    /\ args = <<>>
    /\ ret = <<>>
    /\ edited_dir \in SaveDirs
    /\ unit = "none" /\ pc = "none" /\ readable = FALSE
    /\ orig_text = <<>> /\ notes_read = None /\ chunk_size = 0
    /\ alarm = FALSE /\ calls = <<>> /\ edit_text = <<>>
    /\ validation = <<>> /\ doc_chunks = <<>> /\ chunk_i = 0 /\ edited_chunk = None
    /\ edited_chunks = <<>> /\ result = None
    /\ qwen_edited_dir = {} /\ writes = <<>>
    /\ batch = BatchIdle
    /\ RestIdle

\* output_path = save_edited_text(filename, edited_content, model_name)
CallSave(edited_content, model_name) ==
    /\ fn = "save_edited_text"
    /\ fpc < MaxSaves
    /\ args' = [edited_content |-> edited_content, model_name |-> model_name]
    /\ ret' = [model_id |-> model_name, version |-> FreeVersion(edited_dir, model_name)]
    /\ edited_dir' = save_edited_text(edited_dir, edited_content, model_name)
    /\ fpc' = fpc + 1
    /\ UNCHANGED <<fn, dvars, tvars, qwen_edited_dir, writes, unit, pc, readable, orig_text, notes_read, chunk_size, alarm, calls,
                   edit_text, validation, doc_chunks, chunk_i, edited_chunk, edited_chunks,
                   result>>

NextSave == \E edited_content \in {<<"o">>, <<"n">>}, model_name \in SaveModels :
                CallSave(edited_content, model_name)

SpecSave == InitSave /\ [][NextSave]_vars

\* C14: a save never overwrites.  Every step that changes the output
\* directory leaves every file that was there as it was and adds one file,
\* at a path that did not exist: the unversioned path of the model if that
\* was free, otherwise the path with the smallest version n >= 1 that was free.
C14_SaveNeverOverwrites ==
    [][ edited_dir' # edited_dir =>
            /\ edited_dir \subseteq edited_dir'
            /\ Cardinality(NewFiles) = 1
            /\ \A f \in NewFiles :
                  /\ ~PathExists(edited_dir, f.model_id, f.version)
                  /\ IF ~PathExists(edited_dir, f.model_id, 0)
                     THEN f.version = 0
                     ELSE /\ f.version >= 1
                          /\ \A n \in 1..(f.version - 1) : PathExists(edited_dir, f.model_id, n)
            /\ fn = "save_edited_text" =>
                  \A f \in NewFiles : /\ f.text = args'.edited_content
                                      /\ f.model_id = args'.model_name ]_vars

\* after two saves for a model whose unversioned file and version 2 existed:
\* the first went to version 1, the second past the old version 2 to version 3,
\* and the old files still hold their text
C14_Witness ==
    /\ fn = "save_edited_text"
    /\ fpc = 2
    /\ ret = [model_id |-> "model", version |-> 3]
    /\ args.edited_content = <<"n">>
    /\ \A v \in {0, 2} : [model_id |-> "model", version |-> v, text |-> <<"o">>] \in edited_dir
    /\ [model_id |-> "model", version |-> 1, text |-> <<"n">>] \in edited_dir
    /\ [model_id |-> "model", version |-> 3, text |-> <<"n">>] \in edited_dir

\* C15: an editing unit that completes successfully has written exactly one
\* output file.
C15_OneWritePerUnit ==
    pc = "Done" => Len(writes) = 1

\* the unit failed on reading or on a completion call: it made no call, or
\* its last call raised or timed out
FailedBeforeSaving ==
    /\ pc \in {"Failed", "Raised"}
    /\ \/ calls = <<>>
       \/ calls[Len(calls)].outcome \in {"error", "timeout"}

\* C16: a whole-document unit that fails because the input cannot be read,
\* because the initial or the retry call raises, or because the timeout
\* fires, returns no text and has written no file: the output directory
\* holds what it held before, and a first response already obtained is not
\* written when the retry call fails.
C16_FailedUnitWritesNothing ==
    (unit \in HostedUnits /\ ~Chunked /\ FailedBeforeSaving) =>
        /\ writes = <<>>
        /\ edited_dir \in ExistingDirs
        /\ result = None

\* a unit has failed on its retry call with a non-empty first response in hand
C16_Witness ==
    /\ unit \in HostedUnits /\ ~Chunked /\ FailedBeforeSaving
    /\ Len(calls) = 2
    /\ calls[1].outcome = "ok" /\ calls[1].text # <<>>
    /\ calls[2].outcome = "error"
    /\ edit_text = cleanup_response(calls[1].text)

\* a completion call is in flight
CallInFlight == pc \in {"AwaitingCompletion", "AwaitingRetry", "AwaitingChunk"}

\* C17: whenever a completion call of edit_text_with_claude is in flight, the
\* initial call, the retry call or the call of a chunk, the timeout is armed.
C17_TimeoutArmedInFlight ==
    (unit = "edit_text_with_claude" /\ CallInFlight) => alarm

(***************************************************************************)
(* Batch Driver: batch_edit_texts                                          *)
(*                                                                         *)
(* Each edit_text_with_claude call of the driver is one step; what the     *)
(* unit returns, and the tokens its completion calls used, are drawn from  *)
(* the ways a unit can end.  Amounts of money are in 1e-7 USD.             *)
(***************************************************************************)
\* get_total_tokens_used(client, model)
get_total_tokens_used == 0

\* the average token cost the driver assumes for model
avg_token_cost(model) ==
    IF Contains(model, <<"o","p","u","s">>) THEN 400
    ELSE IF Contains(model, <<"s","o","n","n","e","t">>) THEN 100
    ELSE 7

\* mutant: every file is kept, review notes or not
FilesWithNotes_All(text_files, k) == [j \in 1..(Len(text_files) - k + 1) |-> j + k - 1]

\* "for text_file in text_files: if get_review_notes(text_file): ..."
\* as the indices of the files that have review notes, in order
RECURSIVE FilesWithNotes(_, _)
FilesWithNotes(text_files, k) ==
    IF k > Len(text_files) THEN <<>>
    ELSE (IF Truthy(text_files[k].notes) THEN <<k>> ELSE <<>>)
             \o FilesWithNotes(text_files, k + 1)

\* the text files given to the driver: each with its review notes
BatchFiles ==
    UNION {[1..n -> [notes : ReviewNotesValues]] : n \in 0..MaxBatchFiles}

BatchModels == {
    <<"c","-","o","p","u","s">>,
    <<"c","-","s","o","n","n","e","t">>,
    <<"c","-","h","a","i","k","u">>
}

\* how a unit can end: what it returns (None, or the text saved, which may be
\* empty) and the tokens its completion calls used
UnitOutcomes ==
    {[result |-> None, tokens |-> 0]}
        \cup [result : {None, <<>>, <<"a">>}, tokens : 1..MaxUnitTokens]

InitBatch ==
    /\ fn = "none" /\ args = <<>> /\ ret = <<>> /\ fpc = "none"
    /\ unit = "none" /\ pc = "none" /\ readable = FALSE
    /\ orig_text = <<>> /\ notes_read = None /\ chunk_size = 0
    /\ edited_dir = {} /\ alarm = FALSE /\ calls = <<>> /\ edit_text = <<>>
    /\ validation = <<>> /\ doc_chunks = <<>> /\ chunk_i = 0 /\ edited_chunk = None
    /\ edited_chunks = <<>> /\ result = None
    /\ qwen_edited_dir = {} /\ writes = <<>>
    /\ RestIdle
    /\ \E text_files \in BatchFiles, model \in BatchModels :
          batch = [pc |-> "Start", text_files |-> text_files, model |-> model,
                   batch_total_tokens |-> 0, batch_total_cost |-> 0,
                   processed_count |-> 0, skipped_count |-> 0,
                   files_with_notes |-> <<>>, i |-> 0,
                   invoked |-> <<>>, outcomes |-> <<>>, summary |-> <<>>]

\* "if not text_files: ... return"
BatchStart ==
    /\ batch.pc = "Start"
    /\ batch' = [batch EXCEPT !.pc = IF batch.text_files = <<>> THEN "Returned"
                                     ELSE "Filtering"]
    /\ UNCHANGED <<fvars, ovars, main, local, client, tvars>>

\* the filter loop, and "if not files_with_notes: ... return"
BatchFilter ==
    /\ batch.pc = "Filtering"
    /\ LET files_with_notes == FilesWithNotes(batch.text_files, 1)
       IN  batch' = [batch EXCEPT
                        !.files_with_notes = files_with_notes,
                        !.skipped_count = Len(batch.text_files) - Len(files_with_notes),
                        !.pc = IF files_with_notes = <<>> THEN "Returned" ELSE "Processing"]
    /\ UNCHANGED <<fvars, ovars, main, local, client, tvars>>

\* one turn of the processing loop: edit_text_with_claude is called for the
\* next file with notes and ends with outcome
BatchItem(outcome) ==
    /\ batch.pc = "Processing"
    /\ LET i == batch.i + 1
           pre_tokens == get_total_tokens_used
           post_tokens == get_total_tokens_used
           tokens_this_file == post_tokens - pre_tokens
           cost_this_file == tokens_this_file * avg_token_cost(batch.model)
           counted == Truthy(outcome.result)
       IN  batch' = [batch EXCEPT
                        !.i = i,
                        !.invoked = Append(@, batch.files_with_notes[i]),
                        !.outcomes = Append(@, outcome),
                        !.batch_total_tokens = IF counted THEN @ + tokens_this_file ELSE @,
                        !.batch_total_cost = IF counted THEN @ + cost_this_file ELSE @,
                        !.processed_count = IF counted THEN @ + 1 ELSE @,
                        !.pc = IF i = Len(batch.files_with_notes) THEN "Summarizing"
                               ELSE "Processing"]
    /\ UNCHANGED <<fvars, ovars, main, local, client, tvars>>

\* the final summary is printed
BatchSummary ==
    /\ batch.pc = "Summarizing"
    /\ batch' = [batch EXCEPT
                    !.summary = <<[processed |-> batch.processed_count,
                                   skipped |-> batch.skipped_count,
                                   tokens |-> batch.batch_total_tokens,
                                   cost |-> batch.batch_total_cost]>>,
                    !.pc = "Done"]
    /\ UNCHANGED <<fvars, ovars, main, local, client, tvars>>

NextBatch ==
    \/ BatchStart
    \/ BatchFilter
    \/ \E outcome \in UnitOutcomes : BatchItem(outcome)
    \/ BatchSummary

SpecBatch == InitBatch /\ [][NextBatch]_vars

\* the driver runs to its end: every step that can be taken is taken
SpecBatchLive == SpecBatch /\ WF_vars(NextBatch)

\* the input documents that have review notes
WithNotes == {j \in 1..Len(batch.text_files) : Truthy(batch.text_files[j].notes)}

\* the orchestrator has been invoked, so far, for documents with review notes
\* only, once each and in input order with none passed over; at the summary
\* it has been invoked for every document with review notes
InvokedOnceInOrder ==
    batch.pc \in {"Processing", "Summarizing", "Done"} =>
        /\ \A k \in 1..Len(batch.invoked) :
              /\ batch.invoked[k] \in WithNotes
              /\ \A l \in 1..(k - 1) : batch.invoked[l] < batch.invoked[k]
              /\ \A j \in WithNotes :
                    j < batch.invoked[k] => \E l \in 1..(k - 1) : batch.invoked[l] = j
        /\ batch.pc \in {"Summarizing", "Done"} =>
              {batch.invoked[k] : k \in 1..Len(batch.invoked)} = WithNotes

\* the driver has printed its final summary
SummaryReached == batch.pc = "Done" /\ batch.summary # <<>>

FailedUnits == {k \in 1..Len(batch.outcomes) : batch.outcomes[k].result = None}

\* C19: at the final summary the skipped count covers every document without
\* review notes and every unit that failed, so that the processed count and
\* the skipped count add up to the number of input documents.
C19_FailedCountedAsSkipped ==
    SummaryReached =>
        /\ batch.summary[1].skipped
               = (Len(batch.text_files) - Cardinality(WithNotes)) + Cardinality(FailedUnits)
        /\ batch.summary[1].processed + batch.summary[1].skipped = Len(batch.text_files)

\* the tokens used by the completion calls of the units k.. that were
\* processed successfully
RECURSIVE TokensOfProcessed(_)
TokensOfProcessed(k) ==
    IF k > Len(batch.outcomes) THEN 0
    ELSE (IF batch.outcomes[k].result # None THEN batch.outcomes[k].tokens ELSE 0)
             + TokensOfProcessed(k + 1)

\* C20: at the end of a batch the total token usage reported is the sum of
\* the input and output tokens of the completion calls of the successfully
\* processed units, and the cost reported is derived from that total.
C20_BatchTokensAreSumOfCalls ==
    SummaryReached =>
        /\ batch.summary[1].tokens = TokensOfProcessed(1)
        /\ batch.summary[1].cost = batch.summary[1].tokens * avg_token_cost(batch.model)

\* C24: a document of at most max_words words, an empty or whitespace-only
\* one included, comes back from chunk_document as one chunk, the text itself,
\* with or without preserve_paragraphs.
C24_SmallDocumentIsOneChunk ==
    (fn = "chunk_document" /\ fpc = "return" /\ WordCount(args.text) <= args.max_words)
        => ret = <<args.text>>

\* a text of two paragraphs within the budget, with whitespace at its
\* end, came back as it is
C24_Witness ==
    /\ fn = "chunk_document" /\ fpc = "return" /\ args.preserve_paragraphs
    /\ WordCount(args.text) <= args.max_words
    /\ Len(Paragraphs(args.text)) = 2
    /\ IsSpace(args.text[Len(args.text)])
    /\ ret = <<args.text>>

\* C25: chunk_document packs greedily: for every two consecutive chunks, the
\* words of the earlier chunk and of the first paragraph of the later one are
\* together more than max_words, so the earlier chunk was closed only because
\* that paragraph did not fit.
C25_GreedyPacking ==
    (fn = "chunk_document" /\ fpc = "return" /\ args.preserve_paragraphs) =>
        \A k \in 1..(Len(ret) - 1) :
            /\ ret[k] # <<>>
            /\ WordCount(ret[k]) + WordCount(Paragraphs(ret[k + 1])[1]) > args.max_words

\* a first chunk of two paragraphs was closed before a third paragraph
C25_Witness ==
    /\ fn = "chunk_document" /\ fpc = "return" /\ args.preserve_paragraphs
    /\ Len(ret) = 2
    /\ Len(Paragraphs(ret[1])) = 2
    /\ WordCount(ret[1]) = args.max_words

\* C27: for an original of at least one word, open_editor_agent's validator
\* returns the verdict book_editor_agent's validator returns, for every edited
\* text, with review notes and without.
C27_ValidatorsAgree ==
    (fn = "validate_edited_text" /\ fpc = "return" /\ WordCount(args.original_text) >= 1)
        => ret = open_validate_edited_text(args.original_text, args.edited_text,
                                           Truthy(args.review_notes))

\* the text as it stands when the k-th delimiter is examined (k one past the
\* last delimiter: the text returned)
RECURSIVE TextAtDelimiter(_, _)
TextAtDelimiter(text, k) ==
    IF k = 1 THEN PhraseLoop(text, 1)
    ELSE DelimiterStep(TextAtDelimiter(text, k - 1), ending_delimiters[k - 1])

\* the 1-based positions of text at which delimiter occurs, starting inside
\* the trailing 15% of text (in whole characters), with one of the keywords
\* in the lower-cased text from there to the end
CutPoints(text, delimiter) ==
    {j \in 1..Len(text) :
        /\ j - 1 >= Len(text) - ((Len(text) * 15 + 99) \div 100)
        /\ OccursAt(text, delimiter, j)
        /\ \E w \in 1..Len(metadata_words) :
              Contains(lower(SubSeq(text, j, Len(text))), lower(metadata_words[w]))}

\* C28: each turn of the delimiter pass of cleanup_response leaves the text as
\* it is or cuts it, trimmed, at an occurrence of the delimiter examined that
\* starts inside the trailing 15% of the text as it stands in that turn and is
\* followed by one of the keywords edit, note, comment, text, follow; a text
\* without sign-off phrase and without such a delimiter is returned unchanged,
\* surrounding whitespace included.
C28_DelimiterPass ==
    (fn = "cleanup_response" /\ fpc = "return") =>
        /\ ret[1] = TextAtDelimiter(args.text, Len(ending_delimiters) + 1)
        /\ \A k \in 1..Len(ending_delimiters) :
              LET before == TextAtDelimiter(args.text, k)
                  after == TextAtDelimiter(args.text, k + 1)
              IN  after # before =>
                      \E j \in CutPoints(before, ending_delimiters[k]) :
                          after = strip(SubSeq(before, 1, j - 1))
        /\ (/\ PhrasesIn(args.text) = {}
            /\ \A k \in 1..Len(ending_delimiters) :
                  CutPoints(args.text, ending_delimiters[k]) = {})
              => ret[1] = args.text

\* two cuts in a row: "---" is cut first, and only then does "//" start
\* inside the trailing 15% of what is left
C28_Witness ==
    /\ fn = "cleanup_response" /\ fpc = "return"
    /\ args.text = Rep(<<"a">>, BodyLen)
                     \o <<"/","/">> \o <<"e","d","i","t">> \o <<"-","-","-">> \o <<"e","d","i","t">>
    /\ CutPoints(args.text, <<"/","/">>) = {}
    /\ ret[1] = Rep(<<"a">>, BodyLen)

\* a text with leading and trailing whitespace, a delimiter and no keyword
\* comes back as it went in
C28_WitnessUnchanged ==
    /\ fn = "cleanup_response" /\ fpc = "return"
    /\ args.text = <<SP>> \o <<"/","/">> \o <<SP>>
    /\ ret[1] = args.text

(***************************************************************************)
(* Model registry: get_max_tokens_for_model, estimate_cost,                *)
(* estimate_processing_time                                                *)
(*                                                                         *)
(* Prices are in cents per million tokens, so that 0.25 dollars is the     *)
(* integer 25; a cost is counted in units of 10^-8 dollars, and a duration *)
(* in minutes is the fraction num / den.                                   *)
(***************************************************************************)

\* "claude-3-opus-20240229"
claude_3_opus == <<"c","l","a","u","d","e","-","3","-","o","p","u","s","-","2","0","2","4","0","2","2","9">>

\* "claude-3-sonnet-20240229"
claude_3_sonnet == <<"c","l","a","u","d","e","-","3","-","s","o","n","n","e","t","-","2","0","2","4","0","2","2","9">>

\* "claude-3-haiku-20240307"
claude_3_haiku == <<"c","l","a","u","d","e","-","3","-","h","a","i","k","u","-","2","0","2","4","0","3","0","7">>

\* "claude-3-5-sonnet-20240620"
claude_3_5_sonnet == <<"c","l","a","u","d","e","-","3","-","5","-","s","o","n","n","e","t","-","2","0","2","4","0","6","2","0">>

\* "claude-3-5-haiku-20240620"
claude_3_5_haiku == <<"c","l","a","u","d","e","-","3","-","5","-","h","a","i","k","u","-","2","0","2","4","0","6","2","0">>

\* "claude-3-7-sonnet-20250219"
claude_3_7_sonnet == <<"c","l","a","u","d","e","-","3","-","7","-","s","o","n","n","e","t","-","2","0","2","5","0","2","1","9">>

\* "claude-2.1"
claude_2_1 == <<"c","l","a","u","d","e","-","2",".","1">>


\* the keys of the three tables, in the order they are written
known_models == <<claude_3_opus, claude_3_sonnet, claude_3_haiku, claude_3_5_sonnet, claude_3_5_haiku, claude_3_7_sonnet, claude_2_1>>

\* pricing[model] of estimate_cost, for a key of the table
pricing(model) ==
    IF model = claude_3_opus THEN [input |-> 1500, output |-> 7500]
    ELSE IF model = claude_3_sonnet THEN [input |-> 300, output |-> 1500]
    ELSE IF model = claude_3_haiku THEN [input |-> 25, output |-> 125]
    ELSE IF model = claude_3_5_sonnet THEN [input |-> 300, output |-> 1500]
    ELSE IF model = claude_3_5_haiku THEN [input |-> 25, output |-> 125]
    ELSE IF model = claude_3_7_sonnet THEN [input |-> 500, output |-> 1500]
    ELSE [input |-> 80, output |-> 240]

\* max_tokens_map[model] of get_max_tokens_for_model, for a key of the table
max_tokens_map(model) ==
    IF model = claude_3_opus THEN 12000
    ELSE IF model = claude_3_sonnet THEN 8000
    ELSE IF model = claude_3_haiku THEN 4000
    ELSE IF model = claude_3_5_sonnet THEN 8000
    ELSE IF model = claude_3_5_haiku THEN 4000
    ELSE IF model = claude_3_7_sonnet THEN 12000
    ELSE 4000

\* processing_speeds[model] of estimate_processing_time, for a key of the table
processing_speeds(model) ==
    IF model = claude_3_opus THEN 500
    ELSE IF model = claude_3_sonnet THEN 800
    ELSE IF model = claude_3_haiku THEN 1200
    ELSE IF model = claude_3_5_sonnet THEN 850
    ELSE IF model = claude_3_5_haiku THEN 1300
    ELSE IF model = claude_3_7_sonnet THEN 900
    ELSE 700

\* model in pricing / max_tokens_map / processing_speeds
IsKnownModel(model) == \E k \in 1..Len(known_models) : known_models[k] = model

\* the substrings the family matching looks for
s_3_7 == <<"3","-","7">>
s_3_5 == <<"3","-","5">>
s_opus == <<"o","p","u","s">>
s_sonnet == <<"s","o","n","n","e","t">>
s_haiku == <<"h","a","i","k","u">>
s_2_1 == <<"2",".","1">>

\* get_max_tokens_for_model(model)
get_max_tokens_for_model(model) ==
    IF IsKnownModel(model) THEN max_tokens_map(model)
    ELSE IF Contains(model, s_3_7) THEN 12000
    ELSE IF Contains(model, s_3_5) /\ Contains(model, s_haiku) THEN 4000
    ELSE IF Contains(model, s_3_5) /\ Contains(model, s_sonnet) THEN 8000
    ELSE IF Contains(model, s_haiku) THEN 4000
    ELSE IF Contains(model, s_sonnet) THEN 8000
    ELSE IF Contains(model, s_opus) THEN 12000
    ELSE IF Contains(model, s_2_1) THEN 4000
    ELSE 4000

\* the key the family matching of estimate_cost and estimate_processing_time
\* ends on, None when no branch is taken
FamilyKey(model) ==
    IF Contains(model, s_3_7) /\ Contains(model, s_sonnet) THEN claude_3_7_sonnet
    ELSE IF Contains(model, s_3_5) /\ Contains(model, s_sonnet) THEN claude_3_5_sonnet
    ELSE IF Contains(model, s_3_5) /\ Contains(model, s_haiku) THEN claude_3_5_haiku
    ELSE IF Contains(model, s_opus) THEN claude_3_opus
    ELSE IF Contains(model, s_sonnet) THEN claude_3_sonnet
    ELSE IF Contains(model, s_haiku) THEN claude_3_haiku
    ELSE IF Contains(model, s_2_1) THEN claude_2_1
    ELSE None

\* model_pricing of estimate_cost: "If model not found, use haiku pricing"
model_pricing(model) ==
    IF IsKnownModel(model) THEN pricing(model)
    ELSE IF FamilyKey(model) # None THEN pricing(FamilyKey(model))
    ELSE pricing(claude_3_haiku)

\* estimate_cost(model, input_tokens, output_tokens), in units of 10^-8 dollars
estimate_cost(model, input_tokens, output_tokens) ==
    input_tokens * model_pricing(model).input + output_tokens * model_pricing(model).output

\* mutant: an unrecognized model is reckoned at the rate of the fastest model
default_rate_Fastest == 1300

\* "rate = 800  # Default processing rate"
default_rate == 800

\* rate of estimate_processing_time
rate(model) ==
    IF IsKnownModel(model) THEN processing_speeds(model)
    ELSE IF FamilyKey(model) # None THEN processing_speeds(FamilyKey(model))
    ELSE default_rate

\* estimate_processing_time(word_count, model) in minutes:
\* ((word_count / rate) + 5) / 60 as the fraction num / den
estimate_processing_time(word_count, model) ==
    [num |-> word_count + 5 * rate(model), den |-> 60 * rate(model)]

(***************************************************************************)
(* Pure-function runs: the registry lookups                                *)
(***************************************************************************)
RegistrySegments == {
    <<"c","l","a","u","d","e">>, <<"g","p","t">>, <<"x">>,
    s_3_7, s_3_5, s_opus, s_sonnet, s_haiku, s_2_1
}

\* the keys of the tables, and names of one segment or of two joined by "-"
ModelNames ==
    {known_models[k] : k \in 1..Len(known_models)}
        \cup {<<>>} \cup RegistrySegments
        \cup {a \o <<"-">> \o b : a \in RegistrySegments, b \in RegistrySegments}

InitRegistry ==
    /\ OrchIdle
    /\ RestIdle
    /\ fpc = "call"
    /\ ret = "None"
    /\ \E m \in ModelNames :
          \/ /\ fn = "get_max_tokens_for_model"
             /\ args = [model |-> m]
          \/ /\ fn = "estimate_cost"
             /\ \E i \in 0..MaxRegistryCount, o \in 0..MaxRegistryCount :
                   args = [model |-> m, input_tokens |-> i, output_tokens |-> o]
          \/ /\ fn = "estimate_processing_time"
             /\ \E w \in 0..MaxRegistryCount : args = [word_count |-> w, model |-> m]

CallGetMaxTokens ==
    /\ fn = "get_max_tokens_for_model"
    /\ fpc = "call"
    /\ ret' = get_max_tokens_for_model(args.model)
    /\ fpc' = "return"
    /\ UNCHANGED <<fn, args, ovars, dvars, tvars>>

CallEstimateCost ==
    /\ fn = "estimate_cost"
    /\ fpc = "call"
    /\ ret' = estimate_cost(args.model, args.input_tokens, args.output_tokens)
    /\ fpc' = "return"
    /\ UNCHANGED <<fn, args, ovars, dvars, tvars>>

CallEstimateProcessingTime ==
    /\ fn = "estimate_processing_time"
    /\ fpc = "call"
    /\ ret' = estimate_processing_time(args.word_count, args.model)
    /\ fpc' = "return"
    /\ UNCHANGED <<fn, args, ovars, dvars, tvars>>

NextRegistry == CallGetMaxTokens \/ CallEstimateCost \/ CallEstimateProcessingTime

SpecRegistry == InitRegistry /\ [][NextRegistry]_vars

\* a model name that is no key of the tables and holds none of the substrings
\* the family matching looks for
UnknownModel(model) ==
    /\ ~IsKnownModel(model)
    /\ \A s \in {s_3_7, s_3_5, s_opus, s_sonnet, s_haiku, s_2_1} : ~Contains(model, s)

\* the lowest input price, the lowest output price and the highest rate of the tables
LowestInputPrice ==
    CHOOSE p \in {pricing(known_models[k]).input : k \in 1..Len(known_models)} :
        \A k \in 1..Len(known_models) : p <= pricing(known_models[k]).input
LowestOutputPrice ==
    CHOOSE p \in {pricing(known_models[k]).output : k \in 1..Len(known_models)} :
        \A k \in 1..Len(known_models) : p <= pricing(known_models[k]).output
HighestRate ==
    CHOOSE r \in {processing_speeds(known_models[k]) : k \in 1..Len(known_models)} :
        \A k \in 1..Len(known_models) : r >= processing_speeds(known_models[k])
\* the keys sold at the lowest prices
CheapestModels ==
    {known_models[k] : k \in {j \in 1..Len(known_models) :
        /\ pricing(known_models[j]).input = LowestInputPrice
        /\ pricing(known_models[j]).output = LowestOutputPrice}}

\* C23 as the code has it: for a model name that matches no key and no
\* family, estimate_cost charges the lowest prices of the table,
\* get_max_tokens_for_model returns the token budget of the cheapest models,
\* and estimate_processing_time reckons with the rate of claude-3-sonnet, a
\* middle one.
C23_UnknownFallsBackToCheapestOrSonnetRate ==
    (fpc = "return" /\ fn \in {"estimate_cost", "get_max_tokens_for_model", "estimate_processing_time"}
         /\ UnknownModel(args.model)) =>
        /\ fn = "estimate_cost" =>
              ret = args.input_tokens * LowestInputPrice + args.output_tokens * LowestOutputPrice
        /\ fn = "get_max_tokens_for_model" =>
              \A m \in CheapestModels : ret = max_tokens_map(m)
        /\ fn = "estimate_processing_time" =>
              /\ ret.num * (60 * processing_speeds(claude_3_sonnet))
                    = (args.word_count + 5 * processing_speeds(claude_3_sonnet)) * ret.den
              /\ processing_speeds(claude_3_sonnet) < HighestRate

\* the duration of a document of at least one word is estimated for "gpt-x"
C23_Witness ==
    /\ fn = "estimate_processing_time" /\ fpc = "return"
    /\ args.model = <<"g","p","t","-","x">>
    /\ UnknownModel(args.model)
    /\ args.word_count >= 1
    /\ ret.den = 60 * default_rate

\* C23: for a model name that matches no key and no family, estimate_cost
\* charges the lowest prices of the table, get_max_tokens_for_model returns the
\* token budget of the cheapest models, and estimate_processing_time reckons
\* with the highest words-per-second rate of the table.
C23_UnknownFallsBackToCheapestFastest ==
    (fpc = "return" /\ fn \in {"estimate_cost", "get_max_tokens_for_model", "estimate_processing_time"}
         /\ UnknownModel(args.model)) =>
        /\ fn = "estimate_cost" =>
              ret = args.input_tokens * LowestInputPrice + args.output_tokens * LowestOutputPrice
        /\ fn = "get_max_tokens_for_model" =>
              \A m \in CheapestModels : ret = max_tokens_map(m)
        /\ fn = "estimate_processing_time" =>
              ret.num * (60 * HighestRate) = (args.word_count + 5 * HighestRate) * ret.den

(***************************************************************************)
(* The top-level commands: main of book_editor_agent and of                *)
(* open_editor_agent                                                       *)
(*                                                                         *)
(* Each call of an editing unit is one step; what the unit returns is      *)
(* drawn from the ways a unit can end.  exit_status is the status the      *)
(* interpreter ends with: 0 once main has returned.                        *)
(***************************************************************************)
MainScripts == {"book_editor_agent", "open_editor_agent"}

\* the text files main finds: each with its review notes and with whether
\* is_already_edited holds for it
MainFiles ==
    UNION {[1..n -> [notes : ReviewNotesValues, edited : BOOLEAN]] : n \in 0..MaxBatchFiles}

\* what a unit returns: None, or the edited text (book_editor_agent) or the
\* output path (open_editor_agent)
UnitResults == {None, <<"a">>}

InitMain ==
    /\ fn = "none" /\ args = <<>> /\ ret = <<>> /\ fpc = "none"
    /\ OrchIdle
    /\ local = LocalIdle /\ client = ClientIdle /\ spinning = {} /\ monitors = EmptyBag
    /\ \E script \in MainScripts, batch_mode \in BOOLEAN, text_files \in MainFiles :
          main = [pc |-> "Start", script |-> script, batch_mode |-> batch_mode,
                  text_files |-> text_files, i |-> 0, results |-> <<>>,
                  exit_status |-> None]

\* "if not text_files: ... return" / "if not files_to_process: ... return";
\* book_editor_agent's main hands the files to batch_edit_texts with --batch
MainStart ==
    /\ main.pc = "Start"
    /\ main' = IF main.text_files = <<>>
               THEN [main EXCEPT !.pc = "Exited", !.exit_status = 0]
               ELSE IF main.script = "book_editor_agent" /\ main.batch_mode
               THEN [main EXCEPT !.pc = "Batch"]
               ELSE [main EXCEPT !.pc = "Loop"]
    /\ UNCHANGED <<fvars, ovars, batch, local, client, tvars>>

\* whether the loop of main passes over text_files[k] without calling the unit
MainSkips(k) ==
    IF main.script = "book_editor_agent"
    THEN ~Truthy(main.text_files[k].notes)
    ELSE main.batch_mode /\ main.text_files[k].edited

\* one turn of the loop of main that calls no unit
MainSkip ==
    /\ main.pc = "Loop"
    /\ main.i < Len(main.text_files)
    /\ MainSkips(main.i + 1)
    /\ main' = [main EXCEPT !.i = @ + 1]
    /\ UNCHANGED <<fvars, ovars, batch, local, client, tvars>>

\* one turn of the loop of main: edit_text_with_claude / edit_text is called
\* and returns unit_result
MainUnit(unit_result) ==
    /\ main.pc = "Loop"
    /\ main.i < Len(main.text_files)
    /\ ~MainSkips(main.i + 1)
    /\ main' = [main EXCEPT !.i = @ + 1, !.results = Append(@, unit_result)]
    /\ UNCHANGED <<fvars, ovars, batch, local, client, tvars>>

\* batch_edit_texts runs: one unit for each file with review notes
MainBatch(unit_results) ==
    /\ main.pc = "Batch"
    /\ Len(unit_results) = Len(FilesWithNotes(main.text_files, 1))
    /\ main' = [main EXCEPT !.pc = "Loop", !.i = Len(main.text_files),
                            !.results = unit_results]
    /\ UNCHANGED <<fvars, ovars, batch, local, client, tvars>>

\* the loop is over: main prints its last line and returns, and the
\* interpreter exits
MainReturn ==
    /\ main.pc = "Loop"
    /\ main.i = Len(main.text_files)
    /\ main' = [main EXCEPT !.pc = "Exited", !.exit_status = 0]
    /\ UNCHANGED <<fvars, ovars, batch, local, client, tvars>>

NextMain ==
    \/ MainStart
    \/ MainSkip
    \/ \E unit_result \in UnitResults : MainUnit(unit_result)
    \/ \E unit_results \in UNION {[1..n -> UnitResults] : n \in 0..MaxBatchFiles} :
          MainBatch(unit_results)
    \/ MainReturn

SpecMain == InitMain /\ [][NextMain]_vars

\* C22: a command that ran at least one editing unit exits with status 0 if
\* one of its units succeeded, and with another status if all of them failed.
C22_ExitReflectsSuccess ==
    (main.pc = "Exited" /\ main.results # <<>>) =>
        (main.exit_status = 0 <=> \E k \in 1..Len(main.results) : main.results[k] # None)

(***************************************************************************)
(* The editing unit of open_editor_agent: edit_text, with its fallback     *)
(* edit_by_paragraph                                                       *)
(*                                                                         *)
(* local.calls holds the call_ollama_api calls made so far: what each was  *)
(* about (the whole original or one paragraph) and what it returned.       *)
(* local.written is <<>> until the output file is written, then it holds   *)
(* the text written.                                                       *)
(***************************************************************************)
\* mutant: the paragraph responses are kept as they come
edited_paragraph_Raw(response) == response

\* edited_paragraphs.append(edited_paragraph.strip())
edited_paragraph(response) == strip(response)

\* "if not is_valid and not review_notes:"
NeedsFallback(is_valid, review_notes) == is_valid = "False" /\ ~Truthy(review_notes)

LocalDocs == {
    <<>>,
    <<"a">>,
    <<"a", NL, NL, "b", " ", "b">>,
    <<"a", NL, NL, NL, NL, "b", NL, NL, " ">>,
    <<"a", NL, NL, "b", NL, NL, "c", NL, NL, "d">>
}

\* what the call for the whole document may return
LocalResponses == LocalDocs \cup {<<"T","h","i","s"," ","t","e","x","t"," ","a">>}

\* what the call for one paragraph may return
ParagraphResponses == {<<>>, <<"x">>, <<" ", "y", NL>>}

InitLocal ==
    /\ fn = "none" /\ args = <<>> /\ ret = <<>> /\ fpc = "none"
    /\ OrchIdle
    /\ main = MainIdle /\ client = ClientIdle /\ spinning = {} /\ monitors = EmptyBag
    /\ \E readable_file \in BOOLEAN, original_text \in LocalDocs,
          review_notes \in ReviewNotesValues :
          local = [pc |-> "Reading", readable |-> readable_file,
                   original_text |-> IF readable_file THEN original_text ELSE <<>>,
                   review_notes |-> review_notes,
                   calls |-> <<>>, edited_text |-> None, validation |-> <<>>,
                   paragraphs |-> <<>>, edited_paragraphs |-> <<>>,
                   written |-> <<>>, result |-> None]

\* the input file and the instructions are read; a failure is caught and
\* the unit returns None
LocalRead ==
    /\ local.pc = "Reading"
    /\ local' = [local EXCEPT !.pc = IF local.readable THEN "Calling" ELSE "Failed"]
    /\ UNCHANGED <<fvars, ovars, batch, main, client, tvars>>

\* edited_text = call_ollama_api(model_name, prompt, ollama_base_url)
LocalCall(response) ==
    /\ local.pc = "Calling"
    /\ local' = [local EXCEPT
                    !.calls = Append(@, [about |-> local.original_text, response |-> response]),
                    !.edited_text = response,
                    !.pc = "Validating"]
    /\ UNCHANGED <<fvars, ovars, batch, main, client, tvars>>

\* call_ollama_api raises, for the whole document or for a paragraph
LocalCallFails ==
    /\ \/ local.pc = "Calling"
       \/ local.pc = "Fallback" /\ Len(local.edited_paragraphs) < Len(local.paragraphs)
    /\ local' = [local EXCEPT !.pc = "Failed"]
    /\ UNCHANGED <<fvars, ovars, batch, main, client, tvars>>

\* validate_edited_text(original_text, edited_text, review_notes is not None)
\* and the choice of the paragraph approach, which starts by splitting
LocalValidate ==
    /\ local.pc = "Validating"
    /\ LET is_valid == open_validate_edited_text(local.original_text, local.edited_text,
                                                 local.review_notes # None)
       IN  local' = [local EXCEPT
                        !.validation = Append(@, is_valid),
                        !.paragraphs = IF NeedsFallback(is_valid, local.review_notes)
                                       THEN Paragraphs(local.original_text) ELSE @,
                        !.pc = IF is_valid = "ZeroDivisionError" THEN "Failed"
                               ELSE IF NeedsFallback(is_valid, local.review_notes) THEN "Fallback"
                               ELSE "Writing"]
    /\ UNCHANGED <<fvars, ovars, batch, main, client, tvars>>

\* one turn of the loop of edit_by_paragraph: the call for the next paragraph
\* returns response
LocalParagraphCall(response) ==
    /\ local.pc = "Fallback"
    /\ Len(local.edited_paragraphs) < Len(local.paragraphs)
    /\ LET paragraph == local.paragraphs[Len(local.edited_paragraphs) + 1]
       IN  local' = [local EXCEPT
                        !.calls = Append(@, [about |-> paragraph, response |-> response]),
                        !.edited_paragraphs = Append(@, edited_paragraph(response))]
    /\ UNCHANGED <<fvars, ovars, batch, main, client, tvars>>

\* after the loop: the paragraphs are joined and validated, and the joined
\* text is returned whatever the validator says
LocalJoin ==
    /\ local.pc = "Fallback"
    /\ Len(local.edited_paragraphs) = Len(local.paragraphs)
    /\ LET edited_text == join(NLNL, local.edited_paragraphs)
       IN  local' = [local EXCEPT
                        !.edited_text = edited_text,
                        !.validation = Append(@, open_validate_edited_text(
                                                     local.original_text, edited_text, FALSE)),
                        !.pc = "Writing"]
    /\ UNCHANGED <<fvars, ovars, batch, main, client, tvars>>

\* open(output_path, 'w').write(edited_text); return output_path
LocalWrite ==
    /\ local.pc = "Writing"
    /\ local' = [local EXCEPT !.written = <<local.edited_text>>,
                              !.result = <<"o">>,
                              !.pc = "Done"]
    /\ UNCHANGED <<fvars, ovars, batch, main, client, tvars>>

\* the output file cannot be written
LocalWriteFails ==
    /\ local.pc = "Writing"
    /\ local' = [local EXCEPT !.pc = "Failed"]
    /\ UNCHANGED <<fvars, ovars, batch, main, client, tvars>>

NextLocal ==
    \/ LocalRead
    \/ \E response \in LocalResponses : LocalCall(response)
    \/ LocalCallFails
    \/ LocalValidate
    \/ \E response \in ParagraphResponses : LocalParagraphCall(response)
    \/ LocalJoin
    \/ LocalWrite
    \/ LocalWriteFails

SpecLocal == InitLocal /\ [][NextLocal]_vars

\* the first response was rejected and no review notes were given
FallbackTaken ==
    /\ Len(local.validation) >= 1
    /\ local.validation[1] = "False"
    /\ ~Truthy(local.review_notes)

\* the calls after the first one are about the first non-empty paragraphs of
\* the original, one call each, in order
ParagraphCallsInOrder ==
    /\ Len(local.calls) - 1 <= Len(Paragraphs(local.original_text))
    /\ \A k \in 2..Len(local.calls) :
          local.calls[k].about = Paragraphs(local.original_text)[k - 1]

\* the responses of the calls after the first one
ParagraphResponsesGot == [k \in 1..(Len(local.calls) - 1) |-> local.calls[k + 1].response]

\* C29 as the code has it: when the first response is rejected and there are
\* no review notes, edit_text calls the model once more for each non-empty
\* paragraph of the original, in order, and what it writes is the blank-line
\* join of the responses, each trimmed of surrounding whitespace, whether
\* that text passes validation or not; when the first response is accepted,
\* no further call is made and it is what is written.
C29_FallbackByParagraphTrimmed ==
    /\ local.calls # <<>> =>
          /\ local.calls[1].about = local.original_text
          /\ IF FallbackTaken THEN ParagraphCallsInOrder ELSE Len(local.calls) = 1
    /\ local.pc = "Done" =>
          /\ Len(local.calls) >= 1
          /\ IF FallbackTaken
             THEN /\ Len(local.calls) = 1 + Len(Paragraphs(local.original_text))
                  /\ local.written
                       = <<join(NLNL, [k \in 1..Len(ParagraphResponsesGot) |->
                                          strip(ParagraphResponsesGot[k])])>>
             ELSE local.written = <<local.calls[1].response>>

\* two paragraphs, one blank part between them skipped, answered by padded
\* responses, written although the validator rejects the joined text
C29_Witness ==
    /\ local.pc = "Done"
    /\ FallbackTaken
    /\ Len(split_on(local.original_text, NLNL)) > Len(Paragraphs(local.original_text))
    /\ Len(local.calls) = 3
    /\ local.calls[2].response # strip(local.calls[2].response)
    /\ local.validation[2] = "False"
    /\ local.written # <<>>

\* C29: when the first response is rejected and there are no review notes,
\* edit_text calls the model once more for each non-empty paragraph of the
\* original, in order, and what it writes is the blank-line join of those
\* responses, whether it passes validation or not; when the first response is
\* accepted, no further call is made.
C29_FallbackByParagraph ==
    /\ local.calls # <<>> =>
          IF FallbackTaken THEN ParagraphCallsInOrder ELSE Len(local.calls) = 1
    /\ (local.pc = "Done" /\ FallbackTaken) =>
          /\ Len(local.calls) = 1 + Len(Paragraphs(local.original_text))
          /\ local.written = <<join(NLNL, ParagraphResponsesGot)>>

\* the unit has returned, or has let an exception through to its caller
Returned == pc \in {"Done", "Failed", "Skipped", "Raised"}

\* C21: when a unit of book_editor_agent has returned, on whatever path, no
\* Spinner thread started during the unit is alive and every heartbeat thread
\* started during the unit has left its loop.
C21_ThreadsTerminatedAtReturn ==
    (unit \in HostedUnits /\ Returned) =>
        /\ spinning = {}
        /\ \A m \in BagToSet(monitors) : m.thread = "exited"

\* what the validator says of the first cleaned response, from the document,
\* the review notes and the response alone
FirstVerdict == validate_edited_text(orig_text, cleanup_response(calls[1].text), notes_read)

\* the text the unit has to save, from the document, the review notes and
\* the responses alone
TextToSave ==
    IF FirstVerdict = "False" THEN cleanup_response(calls[2].text)
    ELSE cleanup_response(calls[1].text)

\* the texts of the files the unit has written so far
SavedTexts == {f.text : f \in {g \in edited_dir : \E k \in 1..Len(writes) :
                                  /\ writes[k].dir = "edited-texts"
                                  /\ writes[k].model_id = g.model_id
                                  /\ writes[k].version = g.version}}

\* C26: in a whole-document unit of book_editor_agent, wherever the heartbeat
\* threads stand and whichever spinner threads are alive, the verdict on the
\* first response, the choice to retry and the text saved are what the
\* document, the review notes and the responses alone determine, and the
\* verdict depends on the review notes only through their presence.
C26_DecisionsIndependentOfThreads ==
    (unit \in HostedUnits /\ ~Chunked /\ calls # <<>> /\ calls[1].outcome = "ok") =>
        /\ Len(validation) >= 1 =>
              /\ validation[1] = FirstVerdict
              /\ \A n \in ReviewNotesValues :
                    Truthy(n) = Truthy(notes_read) =>
                        validate_edited_text(orig_text, cleanup_response(calls[1].text), n)
                            = validation[1]
        /\ pc = "Retrying" => FirstVerdict = "False"
        /\ Len(calls) = 2 => FirstVerdict = "False"
        /\ (pc \in {"Saving", "Done"} /\ Len(calls) = 1) => FirstVerdict = "True"
        /\ pc = "Saving" => edit_text = TextToSave
        /\ pc = "Done" => (SavedTexts = {TextToSave} /\ result = TextToSave)

\* a unit has saved the text of its retry while the heartbeat thread of one
\* monitor has left its loop and that of the other is still asleep
C26_Witness ==
    /\ unit = "edit_text_with_claude" /\ ~Chunked
    /\ pc = "Done"
    /\ Len(calls) = 2
    /\ \E m \in BagToSet(monitors) : m.thread = "exited"
    /\ \E m \in BagToSet(monitors) : m.thread = "sleep"
    /\ SavedTexts = {cleanup_response(calls[2].text)}

(***************************************************************************)
(* One AnthropicConnectionMonitor and a caller of it                       *)
(*                                                                         *)
(* The caller starts a request, may set request_completed, and calls       *)
(* stop_monitoring up to MaxStops times.  stop_monitoring is two steps     *)
(* here: the flags are set, and then, if the thread is alive, the timed    *)
(* join is waited for.  client.returns holds, for each stop_monitoring     *)
(* that has returned, whether the heartbeat thread was alive then.         *)
(***************************************************************************)
\* the monitor of the run
TheMonitor == CHOOSE m \in BagToSet(monitors) : TRUE

InitMonitor ==
    /\ fn = "none" /\ args = <<>> /\ ret = <<>> /\ fpc = "none"
    /\ OrchIdle
    /\ main = MainIdle /\ local = LocalIdle /\ spinning = {} /\ monitors = EmptyBag
    /\ \E spinner \in BOOLEAN :
          client = [pc |-> "Created", spinner |-> spinner, marked |-> FALSE,
                    calls |-> 0, returns |-> <<>>]

\* connection_monitor.start_request(spinner, ...): the heartbeat thread starts
ClientStartRequest ==
    /\ client.pc = "Created"
    /\ monitors' = StartMonitor(monitors)
    /\ spinning' = IF client.spinner THEN spinning \cup {"api_spinner"} ELSE spinning
    /\ client' = [client EXCEPT !.pc = "Started"]
    /\ UNCHANGED <<fvars, ovars, batch, main, local>>

\* "connection_monitor.request_completed = True"
ClientMarksCompleted ==
    /\ client.pc = "Started"
    /\ ~client.marked
    /\ monitors' = Replace(monitors, TheMonitor, [TheMonitor EXCEPT !.request_completed = TRUE])
    /\ client' = [client EXCEPT !.marked = TRUE]
    /\ UNCHANGED <<fvars, ovars, batch, main, local, spinning>>

\* stop_monitoring is called: the flags are set, and the caller joins the
\* thread if it is alive
ClientStopMonitoring ==
    /\ client.pc \in {"Started", "Stopped"}
    /\ client.calls < MaxStops
    /\ monitors' = Replace(monitors, TheMonitor, stop_monitoring(TheMonitor))
    /\ client' = IF TheMonitor.thread = "exited"
                 THEN [client EXCEPT !.pc = "Stopped", !.calls = @ + 1,
                                     !.returns = Append(@, FALSE)]
                 ELSE [client EXCEPT !.pc = "Joining", !.calls = @ + 1]
    /\ UNCHANGED <<fvars, ovars, batch, main, local, spinning>>

\* heartbeat_thread.join(timeout=1.0) returns: the thread has ended, or the
\* second is over
ClientJoinReturns ==
    /\ client.pc = "Joining"
    /\ client' = [client EXCEPT !.pc = "Stopped",
                                !.returns = Append(@, TheMonitor.thread # "exited")]
    /\ UNCHANGED <<fvars, ovars, batch, main, local, tvars>>

\* "if api_spinner: api_spinner.stop(...)" after stop_monitoring
ClientStopsSpinner ==
    /\ client.pc = "Stopped"
    /\ spinning # {}
    /\ spinning' = {}
    /\ UNCHANGED <<fvars, ovars, dvars, monitors>>

HeartbeatStep == \E m \in Monitors : Heartbeat(m) \/ HeartbeatWakes(m)

NextMonitor ==
    \/ ClientStartRequest
    \/ ClientMarksCompleted
    \/ ClientStopMonitoring
    \/ ClientJoinReturns
    \/ ClientStopsSpinner
    \/ \E m \in Monitors : Heartbeat(m)
    \/ \E m \in Monitors : HeartbeatWakes(m)

SpecMonitor == InitMonitor /\ [][NextMonitor]_vars

\* the heartbeat thread is scheduled again and again, and a timed join comes
\* to its end
SpecMonitorLive ==
    SpecMonitor /\ WF_vars(HeartbeatStep) /\ WF_vars(ClientJoinReturns)

\* stop_monitoring has been called, or request_completed has been set
StopRequested == client.calls >= 1 \/ client.marked

\* C30: once stop_monitoring has been called on a started monitor, or its
\* request_completed flag has been set, the heartbeat thread leaves its loop
\* in the end, and every call of stop_monitoring returns, the first one and
\* the later ones, whether the thread has ended by then or not.
C30_HeartbeatLeavesLoop ==
    /\ StopRequested ~> (\A m \in BagToSet(monitors) : m.thread = "exited")
    /\ \A n \in 1..MaxStops :
          (client.calls = n) ~> (client.pc = "Stopped" /\ Len(client.returns) >= n)

\* stop_monitoring has returned twice, the first time with the heartbeat thread
\* still alive, and the thread has ended since
C30_Witness ==
    /\ client.pc = "Stopped"
    /\ Len(client.returns) >= 2
    /\ client.returns[1] = TRUE
    /\ \A m \in BagToSet(monitors) : m.thread = "exited"
====
